---- MODULE Spec2Model ----
\* Model of youtube-helper's enrichment engine (src/youtube_helper.py:
\* enrich_playlist, process_takeout_export, enrich_single_video) and of its
\* SQLite metadata cache (src/cache.py: class Cache).
EXTENDS Integers, Sequences, FiniteSets, TLC

\* ------------------------------------------------------------------ bounds

\* Length of the long playlists used to exercise the circuit breaker.
MaxLong == 20
\* Remote calls of one behaviour that may deviate from the prevailing outcome.
MaxBlips == 1
\* The clock stops being read at MaxClock: every successful fetch reads it once.
MaxClock == 3

\* The circuit breaker's threshold ("if consecutive_api_errors >= 10").
Threshold == 10

\* ------------------------------------------------------------------ values

\* Python's None, and Python strings, as tagged pairs.
None == <<"NoneType", "">>
Str(s) == <<"str", s>>
IsNone(v) == v[1] = "NoneType"

\* Python truthiness of the values the engine tests with "if x:".
Truthy(v) == IF IsNone(v) THEN FALSE
             ELSE IF v[1] = "str" THEN v[2] # ""
             ELSE IF v[1] = "dict" THEN DOMAIN v[2] # {}
             ELSE IF v[1] = "int" THEN v[2] # 0
             ELSE IF v[1] = "list" THEN v[2] # <<>>
             ELSE TRUE

\* A Python dict is a tagged function from its keys to its values.
Dict(f) == <<"dict", f>>
\* dict.get(key) and dict.get(key, default): a key that is absent gives the
\* default, a key that is present gives its value, None included.
DictGet(d, key, default) == IF key \in DOMAIN d[2] THEN d[2][key] ELSE default

\* A Python list.
List(q) == <<"list", q>>
\* A Python int.
IntValue(n) == <<"int", n>>

\* The text of a message is the sequence of its words: str.lower() lowers
\* every word, and "sub in text" looks for the words of sub, adjacent and in
\* order.
LowerWord(w) ==
    CASE w = "Not" -> "not"
      [] w = "NOT" -> "not"
      [] w = "Found" -> "found"
      [] w = "FOUND" -> "found"
      [] w = "Video" -> "video"
      [] w = "Quota" -> "quota"
      [] w = "Server" -> "server"
      [] w = "Error" -> "error"
      [] w = "True" -> "true"
      [] w = "TRUE" -> "true"
      [] OTHER -> w
Lower(text) == [i \in DOMAIN text |-> LowerWord(text[i])]
Contains(text, sub) ==
    \E i \in 0..(Len(text) - Len(sub)) :
        \A j \in 1..Len(sub) : text[i + j] = sub[j]

\* ------------------------------------------------------------------ JSON

\* json.dumps: the JSON text of a value, as a tree of JSON tokens.  None is
\* written null, a str a JSON string, a dict an object with the same keys.
RECURSIVE JsonDumps(_)
RECURSIVE BadJsonDumps(_)
BadJsonDumps(data) ==
    IF IsNone(data) THEN <<"string", "None">>
    ELSE IF data[1] = "dict"
    THEN <<"object", [k \in DOMAIN data[2] |-> BadJsonDumps(data[2][k])]>>
    ELSE <<"string", data[2]>>
JsonDumps(data) ==
    IF IsNone(data) THEN <<"null", "">>
    ELSE IF data[1] = "dict"
    THEN <<"object", [k \in DOMAIN data[2] |-> JsonDumps(data[2][k])]>>
    ELSE IF data[1] = "list"
    THEN <<"array", [i \in DOMAIN data[2] |-> JsonDumps(data[2][i])]>>
    ELSE <<"string", data[2]>>

\* json.loads: the value a JSON text denotes.
RECURSIVE JsonLoads(_)
JsonLoads(text) ==
    IF text[1] = "null" THEN None
    ELSE IF text[1] = "object"
    THEN Dict([k \in DOMAIN text[2] |-> JsonLoads(text[2][k])])
    ELSE Str(text[2])

\* ------------------------------------------------------------------ cache

\* A connection to the cache database: the committed tables of the file and
\* the connection's own view, which holds its uncommitted statements too.
\* Each table maps an id to its row (timestamp, content).
EmptyTables == [videos |-> <<>>, channels |-> <<>>]
\* Cache.__init__ / _init_tables: a connection to a new database file.
CacheInit == [disk |-> EmptyTables, view |-> EmptyTables]

\* (mutant: "INSERT OR IGNORE", the first row of an id stays)
InsertOrIgnore(table, id, row) ==
    [k \in (DOMAIN table) \cup {id} |-> IF k \in DOMAIN table THEN table[k] ELSE row]
\* "INSERT OR REPLACE INTO <table> (id, timestamp, content) VALUES (?, ?, ?)"
InsertOrReplace(table, id, row) ==
    [k \in (DOMAIN table) \cup {id} |-> IF k = id THEN row ELSE table[k]]
\* "DELETE FROM <table> WHERE id = ?"
DeleteWhere(table, id) == [k \in (DOMAIN table) \ {id} |-> table[k]]
\* conn.commit()
Commit(c) == [c EXCEPT !.disk = c.view]
\* conn.close() (Cache.close, Cache.__exit__): what was not committed is lost.
Close(c) == [c EXCEPT !.view = c.disk]

\* Cache.put_video(video_id, data)
NoCommitPutVideo(c, video_id, data, timestamp) ==
    [c EXCEPT !.view.videos = InsertOrReplace(@, video_id,
        [timestamp |-> timestamp, content |-> JsonDumps(data)])]
PutVideo(c, video_id, data, timestamp) ==
    Commit([c EXCEPT !.view.videos = InsertOrReplace(@, video_id,
        [timestamp |-> timestamp, content |-> JsonDumps(data)])])

\* Cache.get_video(video_id): the stored payload, or None
GetVideo(c, video_id) ==
    IF video_id \in DOMAIN c.view.videos
    THEN JsonLoads(c.view.videos[video_id].content)
    ELSE None

\* Cache.remove_video(video_id): the cache after it, and its return value
RemoveVideo(c, video_id) ==
    Commit([c EXCEPT !.view.videos = DeleteWhere(@, video_id)])
\* (mutant: the return value does not depend on the deletion)
RemovedAlways(c, video_id) == TRUE
RemoveVideoResult(c, video_id) == video_id \in DOMAIN c.view.videos

\* (mutant: one table for both kinds)
PutChannelShared(c, channel_id, data, timestamp) ==
    Commit([c EXCEPT !.view.channels = InsertOrReplace(@, channel_id,
                        [timestamp |-> timestamp, content |-> JsonDumps(data)]),
                     !.view.videos = InsertOrReplace(@, channel_id,
                        [timestamp |-> timestamp, content |-> JsonDumps(data)])])
\* Cache.put_channel(channel_id, data)
PutChannel(c, channel_id, data, timestamp) ==
    Commit([c EXCEPT !.view.channels = InsertOrReplace(@, channel_id,
        [timestamp |-> timestamp, content |-> JsonDumps(data)])])

\* Cache.get_channel(channel_id): the stored payload, or None
GetChannel(c, channel_id) ==
    IF channel_id \in DOMAIN c.view.channels
    THEN JsonLoads(c.view.channels[channel_id].content)
    ELSE None

\* Cache.remove_channel(channel_id): the cache after it, and its return value
RemoveChannel(c, channel_id) ==
    Commit([c EXCEPT !.view.channels = DeleteWhere(@, channel_id)])
RemoveChannelResult(c, channel_id) == channel_id \in DOMAIN c.view.channels

\* (mutant: every argument deletes both tables)
ClearBoth(c, table) == Commit([c EXCEPT !.view = EmptyTables])
\* (mutant: a name that is no table's is ignored)
ClearKnownOnly(c, table) ==
    Commit(IF table = "videos" THEN [c EXCEPT !.view.videos = <<>>]
           ELSE IF table = "channels" THEN [c EXCEPT !.view.channels = <<>>]
           ELSE IF table = "all" THEN [c EXCEPT !.view = EmptyTables]
           ELSE c)
\* Cache.clear(table)
Clear(c, table) ==
    Commit(IF table = "videos" THEN [c EXCEPT !.view.videos = <<>>]
           ELSE IF table = "channels" THEN [c EXCEPT !.view.channels = <<>>]
           ELSE [c EXCEPT !.view = EmptyTables])

\* Cache.stats()
Stats(c) == [videos |-> Cardinality(DOMAIN c.view.videos),
             channels |-> Cardinality(DOMAIN c.view.channels)]

\* ------------------------------------------------------------------ remote

\* The channel the remote source reports for a video.
ChannelOf(video_id) == IF video_id = "v3" THEN "c2" ELSE "c1"

\* The HTTP responses of the videos endpoint.  raises: requests.get raises a
\* RequestException; ok / status_code / text: the response's; data: the body
\* parsed as JSON ({} when it is not JSON), whose "error" may be present and
\* whose "items" is a list.
VideoResponse(kind, video_id) ==
    CASE kind = "ok" ->
           [raises |-> FALSE, ok |-> TRUE, status_code |-> 200, text |-> <<>>,
            data |-> [items |-> <<[snippet |-> [title |-> Str("title"),
                                                channelId |-> Str(ChannelOf(video_id))]]>>]]
      [] kind = "ok_nochannel" ->
           [raises |-> FALSE, ok |-> TRUE, status_code |-> 200, text |-> <<>>,
            data |-> [items |-> <<[snippet |-> [title |-> Str("title")]]>>]]
      [] kind = "empty" ->
           [raises |-> FALSE, ok |-> TRUE, status_code |-> 200, text |-> <<>>,
            data |-> [items |-> <<>>]]
      [] kind = "api_notfound" ->
           [raises |-> FALSE, ok |-> FALSE, status_code |-> 404, text |-> <<>>,
            data |-> [error |-> Dict([code |-> Str("videoNotFound"),
                                      message |-> Str(<<"Video", "Not", "Found">>)])]]
      [] kind = "api_quota" ->
           [raises |-> FALSE, ok |-> FALSE, status_code |-> 403, text |-> <<>>,
            data |-> [error |-> Dict([code |-> Str("403"),
                                      message |-> Str(<<"Quota", "exceeded">>)])]]
      [] kind = "api_nomessage" ->
           [raises |-> FALSE, ok |-> FALSE, status_code |-> 400, text |-> <<>>,
            data |-> [error |-> Dict([code |-> Str("400")])]]
      [] kind = "api_errorstring" ->
           [raises |-> FALSE, ok |-> FALSE, status_code |-> 400, text |-> <<>>,
            data |-> [error |-> Str(<<"bad", "request">>)]]
      [] kind = "http_500" ->
           [raises |-> FALSE, ok |-> FALSE, status_code |-> 500,
            text |-> <<"Server", "Error">>, data |-> <<>>]
      [] kind = "http_503_notfound" ->
           [raises |-> FALSE, ok |-> FALSE, status_code |-> 503,
            text |-> <<"Backend", "NOT", "FOUND">>, data |-> <<>>]
      [] kind = "network" ->
           [raises |-> TRUE, ok |-> FALSE, status_code |-> 0, text |-> <<>>,
            data |-> <<>>]
VideoKinds == {"ok", "ok_nochannel", "empty", "api_notfound", "api_quota",
               "api_nomessage", "api_errorstring", "http_500", "network"}

\* fetch_video_metadata(video_id, api_key): <<"return", metadata, error>>,
\* or <<"raise", exception class>>.
fetch_video_metadata(video_id, response) ==
    IF response.raises THEN <<"raise", "RequestException">>
    ELSE LET data == response.data
             status_code == response.status_code IN
    IF "error" \in DOMAIN data
    THEN LET error_info == data.error IN
         IF error_info[1] # "dict"
         THEN <<"raise", "AttributeError">>
         ELSE <<"return", None,
                Dict([status_code |-> status_code,
                      error_code |-> DictGet(error_info, "code", None),
                      message |-> DictGet(error_info, "message", None)])>>
    ELSE IF ~response.ok
    THEN <<"return", None,
           Dict([status_code |-> status_code, message |-> Str(response.text)])>>
    ELSE IF ~("items" \in DOMAIN data /\ Len(data.items) > 0)
    THEN <<"return", None,
           Dict([status_code |-> status_code,
                 message |-> Str(<<"Video", "not", "found">>)])>>
    ELSE LET item == data.items[1]
             snippet == IF "snippet" \in DOMAIN item THEN item.snippet ELSE <<>> IN
         <<"return",
           Dict([video_id |-> Str(video_id),
                 title |-> IF "title" \in DOMAIN snippet THEN snippet.title ELSE Str(""),
                 channel_id |-> IF "channelId" \in DOMAIN snippet
                                THEN snippet.channelId ELSE Str(""),
                 statistics |-> Dict([viewCount |-> None])]),
           None>>

\* The HTTP responses of the channels endpoint.  status_error: the status is
\* 4xx/5xx, which raise_for_status turns into an HTTPError; json: the body
\* parsed as JSON, a list when the body is not an object.
ChannelResponse(kind) ==
    CASE kind = "ok" ->
           [raises |-> FALSE, status_error |-> FALSE, is_object |-> TRUE,
            data |-> [items |-> <<[snippet |-> [title |-> Str("channel")]]>>]]
      [] kind = "empty" ->
           [raises |-> FALSE, status_error |-> FALSE, is_object |-> TRUE,
            data |-> [items |-> <<>>]]
      [] kind = "http_500" ->
           [raises |-> FALSE, status_error |-> TRUE, is_object |-> TRUE, data |-> <<>>]
      [] kind = "network" ->
           [raises |-> TRUE, status_error |-> FALSE, is_object |-> TRUE, data |-> <<>>]
      [] kind = "not_object" ->
           [raises |-> FALSE, status_error |-> FALSE, is_object |-> FALSE, data |-> <<>>]
ChannelKinds == {"ok", "empty", "http_500", "network", "not_object"}

\* fetch_channel_metadata(channel_id, api_key): <<"return", metadata or None>>,
\* or <<"raise", exception class>>.
fetch_channel_metadata(channel_id, response) ==
    IF response.raises \/ response.status_error
    THEN <<"raise", "RequestException">>
    ELSE IF ~response.is_object
    THEN <<"raise", "AttributeError">>
    ELSE LET data == response.data IN
    IF ~("items" \in DOMAIN data /\ Len(data.items) > 0)
    THEN <<"return", None>>
    ELSE LET item == data.items[1]
             snippet == IF "snippet" \in DOMAIN item THEN item.snippet ELSE <<>> IN
         <<"return",
           Dict([id |-> Str(channel_id),
                 title |-> IF "title" \in DOMAIN snippet THEN snippet.title ELSE Str(""),
                 subscriber_count |-> None])>>

\* ------------------------------------------------------------------ engine

\* The local variables of a run at its start (enrich_playlist and
\* process_takeout_export initialise the same names).
RunInit ==
    [enriched_videos |-> <<>>, channels_by_id |-> <<>>, errors |-> <<>>,
     video_cache_hits |-> 0, channel_cache_hits |-> 0, api_calls |-> 0,
     api_success |-> 0, api_errors |-> 0, consecutive_api_errors |-> 0,
     videos_not_found |-> 0, processing_errors |-> 0, aborted |-> FALSE]

\* str(e) of the exceptions the remote calls raise.
ExcText(cls) == IF cls = "RequestException" THEN <<"connection", "failed">>
                ELSE <<"no", "attribute", "get">>

\* dict[key] = value
DictSet(d, key, value) ==
    Dict([k \in (DOMAIN d[2]) \cup {key} |-> IF k = key THEN value ELSE d[2][k]])

\* One step of a loop body gives: the locals, the cache and the clock after
\* it, how the iteration ended (flow: "next" falls through to the rest of the
\* body, "continue", "break"), and the payload it goes on with.
\* calls lists the remote calls the step made, in order.
StepResult(l, c, t, flow, payload) ==
    [l |-> l, c |-> c, t |-> t, flow |-> flow, payload |-> payload, calls |-> <<>>]
\* The step made the remote call (endpoint, id) and got res.
Called(r, endpoint, id, res) ==
    [r EXCEPT !.calls = <<[endpoint |-> endpoint, id |-> id, res |-> res]>> \o @]

\* (mutant: the handler stores the error entry in the cache)
EnrichUnexpectedCached(l, c, t, video, text) ==
    LET error_msg == Str(<<"Processing", "error:">> \o text) IN
    StepResult(
        [l EXCEPT !.api_errors = @ + 1,
                  !.processing_errors = @ + 1,
                  !.errors = Append(@, [video_id |-> video.video_id, error |-> error_msg]),
                  !.enriched_videos = Append(@, [video_id |-> video.video_id,
                                                 added_at |-> video.added_at,
                                                 error |-> error_msg]),
                  !.consecutive_api_errors = 0],
        PutVideo(c, video.video_id,
                 Dict([video_id |-> Str(video.video_id), error |-> error_msg]), t),
        t, "continue", None)

\* enrich_playlist: the "except Exception" handler of the video fetch.
EnrichUnexpected(l, c, t, video, text) ==
    LET error_msg == Str(<<"Processing", "error:">> \o text) IN
    StepResult(
        [l EXCEPT !.api_errors = @ + 1,
                  !.processing_errors = @ + 1,
                  !.errors = Append(@, [video_id |-> video.video_id, error |-> error_msg]),
                  !.enriched_videos = Append(@, [video_id |-> video.video_id,
                                                 added_at |-> video.added_at,
                                                 error |-> error_msg]),
                  !.consecutive_api_errors = 0],
        c, t, "continue", None)

\* enrich_playlist: the "if api_error:" branch of the video fetch.
\* (mutant: the message is compared with 'not found' instead of searched)
IsNotFoundEquals(error_msg) == Lower(error_msg[2]) = <<"not", "found">>
\* (mutant: the test is made on the message as it is written)
IsNotFoundAsWritten(error_msg) == Contains(error_msg[2], <<"not", "found">>)
\* is_not_found = 'not found' in error_msg.lower()
IsNotFound(error_msg) == Contains(Lower(error_msg[2]), <<"not", "found">>)

\* (mutant: the threshold test after an API error is missing)
EnrichApiErrorNoBreak(l, c, t, video, api_error) ==
    LET error_msg == DictGet(api_error, "message", Str(<<"API", "error">>))
        l1 == [l EXCEPT !.api_calls = @ + 1,
                        !.api_errors = @ + 1,
                        !.errors = Append(@, [video_id |-> video.video_id,
                                              error |-> error_msg]),
                        !.enriched_videos = Append(@, [video_id |-> video.video_id,
                                                       added_at |-> video.added_at,
                                                       error |-> error_msg])]
    IN
    IF IsNone(error_msg)
    THEN EnrichUnexpected(l1, c, t, video, <<"no", "attribute", "lower">>)
    ELSE IF IsNotFound(error_msg)
    THEN StepResult([l1 EXCEPT !.videos_not_found = @ + 1,
                               !.consecutive_api_errors = 0], c, t, "continue", None)
    ELSE StepResult([l1 EXCEPT !.consecutive_api_errors = @ + 1],
                    c, t, "continue", None)

\* (mutant: a not-found outcome is counted but does not reset the counter)
EnrichApiErrorNoReset(l, c, t, video, api_error) ==
    LET error_msg == DictGet(api_error, "message", Str(<<"API", "error">>))
        l1 == [l EXCEPT !.api_calls = @ + 1,
                        !.api_errors = @ + 1,
                        !.errors = Append(@, [video_id |-> video.video_id,
                                              error |-> error_msg]),
                        !.enriched_videos = Append(@, [video_id |-> video.video_id,
                                                       added_at |-> video.added_at,
                                                       error |-> error_msg])]
    IN
    IF IsNone(error_msg)
    THEN EnrichUnexpected(l1, c, t, video, <<"no", "attribute", "lower">>)
    ELSE LET l2 == IF IsNotFound(error_msg)
                   THEN [l1 EXCEPT !.videos_not_found = @ + 1]
                   ELSE [l1 EXCEPT !.consecutive_api_errors = @ + 1]
         IN
         IF l2.consecutive_api_errors >= Threshold
         THEN StepResult([l2 EXCEPT !.aborted = TRUE], c, t, "break", None)
         ELSE StepResult(l2, c, t, "continue", None)

EnrichApiError(l, c, t, video, api_error) ==
    LET error_msg == DictGet(api_error, "message", Str(<<"API", "error">>))
        l1 == [l EXCEPT !.api_calls = @ + 1,
                        !.api_errors = @ + 1,
                        !.errors = Append(@, [video_id |-> video.video_id,
                                              error |-> error_msg]),
                        !.enriched_videos = Append(@, [video_id |-> video.video_id,
                                                       added_at |-> video.added_at,
                                                       error |-> error_msg])]
    IN
    IF IsNone(error_msg)
    THEN \* error_msg.lower() raises AttributeError
         EnrichUnexpected(l1, c, t, video, <<"no", "attribute", "lower">>)
    ELSE LET is_not_found == IsNotFound(error_msg)
             l2 == IF is_not_found
                   THEN [l1 EXCEPT !.videos_not_found = @ + 1,
                                   !.consecutive_api_errors = 0]
                   ELSE [l1 EXCEPT !.consecutive_api_errors = @ + 1]
         IN
         IF l2.consecutive_api_errors >= Threshold
         THEN StepResult([l2 EXCEPT !.aborted = TRUE], c, t, "break", None)
         ELSE StepResult(l2, c, t, "continue", None)

\* (mutant: the threshold test of the handler is "> 10")
EnrichRequestExceptionLate(l, c, t, video, text) ==
    LET l1 == [l EXCEPT !.api_errors = @ + 1,
                        !.consecutive_api_errors = @ + 1,
                        !.processing_errors = @ + 1,
                        !.errors = Append(@, [video_id |-> video.video_id,
                                              error |-> Str(text)]),
                        !.enriched_videos = Append(@, [video_id |-> video.video_id,
                                                       added_at |-> video.added_at,
                                                       error |-> Str(text)])]
    IN
    IF l1.consecutive_api_errors > Threshold
    THEN StepResult([l1 EXCEPT !.aborted = TRUE], c, t, "break", None)
    ELSE StepResult(l1, c, t, "continue", None)

\* enrich_playlist: the "except requests.RequestException" handler of the
\* video fetch.
EnrichRequestException(l, c, t, video, text) ==
    LET l1 == [l EXCEPT !.api_errors = @ + 1,
                        !.consecutive_api_errors = @ + 1,
                        !.processing_errors = @ + 1,
                        !.errors = Append(@, [video_id |-> video.video_id,
                                              error |-> Str(text)]),
                        !.enriched_videos = Append(@, [video_id |-> video.video_id,
                                                       added_at |-> video.added_at,
                                                       error |-> Str(text)])]
    IN
    IF l1.consecutive_api_errors >= Threshold
    THEN StepResult([l1 EXCEPT !.aborted = TRUE], c, t, "break", None)
    ELSE StepResult(l1, c, t, "continue", None)

\* enrich_playlist: the "try" of the video fetch, with its handlers.  res is
\* what fetch_video_metadata gives.
EnrichFetched(l, c, t, video, res) ==
    IF res[1] = "raise"
    THEN IF res[2] = "RequestException"
         THEN EnrichRequestException(l, c, t, video, ExcText(res[2]))
         ELSE EnrichUnexpected(l, c, t, video, ExcText(res[2]))
    ELSE LET video_metadata == res[2]
             api_error == res[3] IN
         IF Truthy(api_error)
         THEN EnrichApiError(l, c, t, video, api_error)
         ELSE IF ~Truthy(video_metadata)
         THEN StepResult(
                [l EXCEPT !.api_calls = @ + 1,
                          !.api_errors = @ + 1,
                          !.videos_not_found = @ + 1,
                          !.errors = Append(@, [video_id |-> video.video_id,
                              error |-> Str(<<"Video", "not", "found", "(may", "be",
                                              "deleted", "or", "private)">>)]),
                          !.enriched_videos = Append(@, [video_id |-> video.video_id,
                              added_at |-> video.added_at,
                              error |-> Str(<<"Video", "not", "found">>)]),
                          !.consecutive_api_errors = 0],
                c, t, "continue", None)
         ELSE LET stamped == DictSet(video_metadata, "_extracted_at", Str(t)) IN
              StepResult(
                [l EXCEPT !.api_calls = @ + 1,
                          !.api_success = @ + 1,
                          !.consecutive_api_errors = 0],
                PutVideo(c, video.video_id, stamped, t), t + 1, "next", stamped)

\* (mutant: a cached payload is given the time of the lookup)
EnrichVideoRestamped(l, c, t, video, res) ==
    LET cached_video == GetVideo(c, video.video_id) IN
    IF Truthy(cached_video)
    THEN StepResult([l EXCEPT !.video_cache_hits = @ + 1], c, t, "next",
                    DictSet(cached_video, "_extracted_at", Str(t)))
    ELSE Called(EnrichFetched(l, c, t, video, res), "videos", video.video_id, res)

\* (mutant: a cache hit resets the counter of consecutive failures)
EnrichVideoHitResets(l, c, t, video, res) ==
    LET cached_video == GetVideo(c, video.video_id) IN
    IF Truthy(cached_video)
    THEN StepResult([l EXCEPT !.video_cache_hits = @ + 1,
                              !.consecutive_api_errors = 0],
                    c, t, "next", cached_video)
    ELSE Called(EnrichFetched(l, c, t, video, res), "videos", video.video_id, res)

\* enrich_playlist: the video part of the loop body, from the cache lookup to
\* video_payload.
EnrichVideo(l, c, t, video, res) ==
    LET cached_video == GetVideo(c, video.video_id) IN
    IF Truthy(cached_video)
    THEN StepResult([l EXCEPT !.video_cache_hits = @ + 1], c, t, "next", cached_video)
    ELSE Called(EnrichFetched(l, c, t, video, res), "videos", video.video_id, res)

\* (mutant: a channel fetch is not counted in api_calls)
EnrichChannelFetchedUncounted(l, c, t, channel_id, res) ==
    LET r == IF res[1] = "raise"
             THEN IF res[2] = "RequestException"
                  THEN StepResult([l EXCEPT !.api_errors = @ + 1,
                                            !.consecutive_api_errors = @ + 1,
                                            !.processing_errors = @ + 1],
                                  c, t, "next", None)
                  ELSE StepResult([l EXCEPT !.api_errors = @ + 1,
                                            !.processing_errors = @ + 1],
                                  c, t, "next", None)
             ELSE LET channel_metadata == res[2] IN
                  IF Truthy(channel_metadata)
                  THEN LET stamped == DictSet(channel_metadata, "_extracted_at", Str(t)) IN
                       StepResult([l EXCEPT !.api_success = @ + 1,
                                            !.consecutive_api_errors = 0],
                                  PutChannel(c, channel_id, stamped, t), t + 1,
                                  "next", stamped)
                  ELSE StepResult([l EXCEPT !.api_errors = @ + 1,
                                            !.consecutive_api_errors = @ + 1],
                                  c, t, "next", None)
    IN
    IF r.l.consecutive_api_errors >= Threshold
    THEN [r EXCEPT !.l.aborted = TRUE, !.flow = "break"]
    ELSE r

\* enrich_playlist: the "try" of the channel fetch, with its handlers, and the
\* threshold test that follows it.  The payload is channel_data.
EnrichChannelFetched(l, c, t, channel_id, res) ==
    LET r == IF res[1] = "raise"
             THEN IF res[2] = "RequestException"
                  THEN StepResult([l EXCEPT !.api_errors = @ + 1,
                                            !.consecutive_api_errors = @ + 1,
                                            !.processing_errors = @ + 1],
                                  c, t, "next", None)
                  ELSE StepResult([l EXCEPT !.api_errors = @ + 1,
                                            !.processing_errors = @ + 1],
                                  c, t, "next", None)
             ELSE LET channel_metadata == res[2] IN
                  IF Truthy(channel_metadata)
                  THEN LET stamped == DictSet(channel_metadata, "_extracted_at", Str(t)) IN
                       StepResult([l EXCEPT !.api_calls = @ + 1,
                                            !.api_success = @ + 1,
                                            !.consecutive_api_errors = 0],
                                  PutChannel(c, channel_id, stamped, t), t + 1,
                                  "next", stamped)
                  ELSE StepResult([l EXCEPT !.api_calls = @ + 1,
                                            !.api_errors = @ + 1,
                                            !.consecutive_api_errors = @ + 1],
                                  c, t, "next", None)
    IN
    IF r.l.consecutive_api_errors >= Threshold
    THEN [r EXCEPT !.l.aborted = TRUE, !.flow = "break"]
    ELSE r

\* (mutant: a channel that is not in channels_by_id is fetched without a look
\* in the cache)
EnrichChannelNoCache(l, c, t, channel_id, res) ==
    IF ~Truthy(channel_id) \/ channel_id[2] \in DOMAIN l.channels_by_id
    THEN StepResult(l, c, t, "next", None)
    ELSE LET r == Called(EnrichChannelFetched(l, c, t, channel_id[2], res),
                         "channels", channel_id[2], res)
         IN
         IF r.flow = "next" /\ Truthy(r.payload)
         THEN [r EXCEPT !.l.channels_by_id =
                   InsertOrReplace(@, channel_id[2], r.payload)]
         ELSE r

\* enrich_playlist: the channel part of the loop body ("if channel_id:").
EnrichChannel(l, c, t, channel_id, res) ==
    IF ~Truthy(channel_id) \/ channel_id[2] \in DOMAIN l.channels_by_id
    THEN StepResult(l, c, t, "next", None)
    ELSE LET cached_channel == GetChannel(c, channel_id[2])
             r == IF Truthy(cached_channel)
                  THEN StepResult([l EXCEPT !.channel_cache_hits = @ + 1],
                                  c, t, "next", cached_channel)
                  ELSE Called(EnrichChannelFetched(l, c, t, channel_id[2], res),
                              "channels", channel_id[2], res)
         IN
         IF r.flow = "next" /\ Truthy(r.payload)
         THEN [r EXCEPT !.l.channels_by_id =
                   InsertOrReplace(@, channel_id[2], r.payload)]
         ELSE r

\* The output_video entry of a video (enrich_playlist).
OutputVideo(video, video_payload, channel_id) ==
    [video_id |-> video.video_id,
     title |-> DictGet(video_payload, "title", None),
     channel_id |-> channel_id,
     statistics |-> DictGet(video_payload, "statistics", None),
     video_data_extracted_at |-> DictGet(video_payload, "_extracted_at", None),
     added_at |-> video.added_at]

\* enrich_playlist: one iteration of the loop over the input.  vres and cres
\* are what the remote calls give if the iteration makes them.
EnrichItem(l, c, t, video, vres, cres) ==
    LET v == EnrichVideo(l, c, t, video, vres) IN
    IF v.flow # "next" THEN v
    ELSE LET channel_id == DictGet(v.payload, "channel_id", None)
             ch == EnrichChannel(v.l, v.c, v.t, channel_id, cres)
             r == [ch EXCEPT !.calls = v.calls \o @]
         IN
         IF ch.flow = "break" THEN r
         ELSE [r EXCEPT !.l.enriched_videos =
                   Append(@, OutputVideo(video, v.payload, channel_id)),
                        !.flow = IF ch.l.aborted THEN "break" ELSE "continue"]

\* str.strip() of a video id: the ids written with surrounding blanks.
Strip(id) == IF id = " v1" THEN "v1" ELSE id

\* process_takeout_export: the first pass over the playlist files, giving
\* video_to_playlists and all_videos (each id once, its first occurrence).
RECURSIVE CollectVideos(_, _, _)
CollectVideos(entries, video_to_playlists, all_videos) ==
    IF entries = <<>>
    THEN [video_to_playlists |-> video_to_playlists, all_videos |-> all_videos]
    ELSE LET e == Head(entries)
             before == IF e.video_id \in DOMAIN video_to_playlists
                       THEN video_to_playlists[e.video_id] ELSE <<>>
             seen == {all_videos[i].video_id : i \in DOMAIN all_videos}
         IN
         CollectVideos(Tail(entries),
             InsertOrReplace(video_to_playlists, e.video_id,
                             Append(before, e.playlist_name)),
             IF e.video_id \in seen THEN all_videos
             ELSE Append(all_videos, [video_id |-> e.video_id, added_at |-> e.added_at]))

\* video_to_playlists.get(video_id, [])
PlaylistsOf(video_to_playlists, video_id) ==
    IF video_id \in DOMAIN video_to_playlists
    THEN video_to_playlists[video_id] ELSE <<>>

\* process_takeout_export: the "try" of the video fetch, with its handler.
\* An exception that is no RequestException leaves the loop (flow "raise").
TakeoutFetched(l, c, t, video_id, added_at, playlists, res) ==
    LET l0 == [l EXCEPT !.api_calls = @ + 1] IN
    IF res[1] = "raise"
    THEN IF res[2] = "RequestException"
         THEN StepResult(
                [l0 EXCEPT !.api_errors = @ + 1,
                           !.consecutive_api_errors = @ + 1,
                           !.processing_errors = @ + 1,
                           !.enriched_videos = Append(@,
                               [video_id |-> video_id, added_at |-> added_at,
                                error |-> Str(ExcText(res[2])),
                                appears_in_playlists |-> playlists])],
                c, t, "continue", None)
         ELSE StepResult(l0, c, t, "raise", None)
    ELSE LET result == res[2]
             error_details == res[3] IN
         IF Truthy(result)
         THEN LET stamped == DictSet(result, "_extracted_at", Str(t)) IN
              StepResult([l0 EXCEPT !.api_success = @ + 1,
                                    !.consecutive_api_errors = 0],
                         PutVideo(c, video_id, stamped, t), t + 1, "next", stamped)
         ELSE IF Truthy(error_details)
         THEN LET l1 == [l0 EXCEPT !.api_errors = @ + 1,
                                   !.consecutive_api_errors = @ + 1]
                  l2 == IF DictGet(error_details, "error_code", None) = Str("videoNotFound")
                        THEN [l1 EXCEPT !.videos_not_found = @ + 1]
                        ELSE [l1 EXCEPT !.processing_errors = @ + 1]
              IN
              StepResult(
                [l2 EXCEPT !.enriched_videos = Append(@,
                     [video_id |-> video_id, added_at |-> added_at,
                      error |-> DictGet(error_details, "message",
                                        Str(<<"Unknown", "error">>)),
                      appears_in_playlists |-> playlists])],
                c, t, "continue", None)
         ELSE StepResult(
                [l0 EXCEPT !.videos_not_found = @ + 1,
                           !.enriched_videos = Append(@,
                               [video_id |-> video_id, added_at |-> added_at,
                                error |-> Str(<<"Video", "not", "found">>),
                                appears_in_playlists |-> playlists])],
                c, t, "continue", None)

\* process_takeout_export: the video part of the loop body.
TakeoutVideo(l, c, t, video_id, added_at, playlists, res) ==
    LET cached == GetVideo(c, video_id) IN
    IF Truthy(cached)
    THEN StepResult([l EXCEPT !.video_cache_hits = @ + 1,
                              !.consecutive_api_errors = 0],
                    c, t, "next", cached)
    ELSE Called(TakeoutFetched(l, c, t, video_id, added_at, playlists, res),
                "videos", video_id, res)

\* process_takeout_export: the channel part of the loop body.
TakeoutChannel(l, c, t, channel_id, res) ==
    IF ~(Truthy(channel_id) /\ channel_id[2] \notin DOMAIN l.channels_by_id)
    THEN StepResult(l, c, t, "next", None)
    ELSE LET cached_channel == GetChannel(c, channel_id[2]) IN
         IF Truthy(cached_channel)
         THEN StepResult(
                [l EXCEPT !.channel_cache_hits = @ + 1,
                          !.channels_by_id =
                              InsertOrReplace(@, channel_id[2], cached_channel)],
                c, t, "next", None)
         ELSE LET l0 == [l EXCEPT !.api_calls = @ + 1] IN
              Called(
                IF res[1] = "raise"
                THEN IF res[2] = "RequestException"
                     THEN StepResult([l0 EXCEPT !.api_errors = @ + 1,
                                                !.consecutive_api_errors = @ + 1],
                                     c, t, "next", None)
                     ELSE StepResult(l0, c, t, "raise", None)
                ELSE LET channel_data == res[2] IN
                     IF Truthy(channel_data)
                     THEN LET stamped == DictSet(channel_data, "_extracted_at", Str(t)) IN
                          StepResult(
                            [l0 EXCEPT !.api_success = @ + 1,
                                       !.channels_by_id =
                                           InsertOrReplace(@, channel_id[2], stamped)],
                            PutChannel(c, channel_id[2], stamped, t), t + 1,
                            "next", None)
                     ELSE StepResult(l0, c, t, "next", None),
                "channels", channel_id[2], res)

\* process_takeout_export: one iteration of the loop over all_videos.
TakeoutItem(l, c, t, video, video_to_playlists, vres, cres) ==
    LET video_id == Strip(video.video_id)
        playlists == PlaylistsOf(video_to_playlists, video_id)
        v == TakeoutVideo(l, c, t, video_id, video.added_at, playlists, vres)
    IN
    IF v.flow # "next" THEN v
    ELSE LET channel_id == DictGet(v.payload, "channel_id", None)
             ch == TakeoutChannel(v.l, v.c, v.t, channel_id, cres)
             r == [ch EXCEPT !.calls = v.calls \o @]
         IN
         IF ch.flow = "raise" THEN r
         ELSE LET out == [OutputVideo([video_id |-> video_id,
                                       added_at |-> video.added_at],
                                      v.payload, channel_id)
                          EXCEPT !.video_id = video_id] @@
                         [appears_in_playlists |-> playlists]
                  l1 == [ch.l EXCEPT !.enriched_videos = Append(@, out)]
              IN
              IF l1.consecutive_api_errors >= Threshold
              THEN [r EXCEPT !.l = [l1 EXCEPT !.aborted = TRUE], !.flow = "break"]
              ELSE [r EXCEPT !.l = l1, !.flow = "continue"]

\* ------------------------------------------------------------ SQLite export

\* int(x) for the values a count can have: <<"ok", n>>, or <<"raise", class>>.
\* int of a str parses a decimal numeral, blanks around it ignored; int of
\* None, a list or a dict is a TypeError.
IntOfText(text) ==
    CASE text = "0" -> <<"ok", 0>>
      [] text = "12" -> <<"ok", 12>>
      [] text = " 7" -> <<"ok", 7>>
      [] OTHER -> <<"raise", "ValueError">>
PyInt(v) ==
    IF v[1] = "int" THEN <<"ok", v[2]>>
    ELSE IF v[1] = "str" THEN IntOfText(v[2])
    ELSE <<"raise", "TypeError">>

\* "int(d.get(key, 0)) if d.get(key) else None" in its
\* "try ... except (ValueError, TypeError): None".
CountColumn(d, key) ==
    IF ~Truthy(DictGet(d, key, None)) THEN None
    ELSE LET r == PyInt(DictGet(d, key, IntValue(0))) IN
         IF r[1] = "ok" THEN IntValue(r[2]) ELSE None

\* The file at db_path: none, or a database with its four tables.  videos,
\* playlists and channels have the primary key id; video_playlists has the
\* primary key (video_id, playlist_id) and is kept in insertion order.
EmptyDatabase ==
    [videos |-> <<>>, playlists |-> <<>>, channels |-> <<>>, video_playlists |-> <<>>]
NoFile == [exists |-> FALSE, tables |-> EmptyDatabase]
Database(tables) == [exists |-> TRUE, tables |-> tables]

\* (mutant: the file at db_path is left in place)
KeepExisting(file) == file
\* "if db_path.exists(): db_path.unlink()"
RemoveExisting(file) == IF file.exists THEN NoFile ELSE file

\* video.get(key) on an entry of enriched_videos.
EntryGet(video, key) == IF key \in DOMAIN video THEN video[key] ELSE None

\* The loop over channels_by_id.items().
ChannelRows(channels_by_id) ==
    [channel_id \in DOMAIN channels_by_id |->
        [title |-> DictGet(channels_by_id[channel_id], "title", None),
         subscriber_count |->
             CountColumn(channels_by_id[channel_id], "subscriber_count"),
         extracted_at |-> DictGet(channels_by_id[channel_id], "_extracted_at", None)]]

\* The loop over playlist_info.items(), a dict in insertion order given as
\* the sequence of its items (empty for None): the rows of playlists ...
RECURSIVE PlaylistRows(_, _)
PlaylistRows(playlist_info, rows) ==
    IF playlist_info = <<>> THEN rows
    ELSE LET item == Head(playlist_info)
             add_new == IF LowerWord(DictGet(item.pdata, "add_new_videos_to_top",
                                             Str(""))[2]) = "true"
                        THEN 1 ELSE 0
         IN
         PlaylistRows(Tail(playlist_info),
             InsertOrReplace(rows, item.playlist_id,
                 [title |-> DictGet(item.pdata, "title", None),
                  add_new_videos_to_top |-> add_new]))
\* (mutant: the first playlist of a title keeps the title)
RECURSIVE PlaylistIdMapFirst(_, _)
PlaylistIdMapFirst(playlist_info, playlist_id_map) ==
    IF playlist_info = <<>> THEN playlist_id_map
    ELSE LET item == Head(playlist_info)
             title == DictGet(item.pdata, "title", None)
         IN
         PlaylistIdMapFirst(Tail(playlist_info),
             IF Truthy(title)
             THEN InsertOrIgnore(playlist_id_map, title[2], item.playlist_id)
             ELSE playlist_id_map)
\* ... and playlist_id_map, from title to id.
RECURSIVE PlaylistIdMap(_, _)
PlaylistIdMap(playlist_info, playlist_id_map) ==
    IF playlist_info = <<>> THEN playlist_id_map
    ELSE LET item == Head(playlist_info)
             title == DictGet(item.pdata, "title", None)
         IN
         PlaylistIdMap(Tail(playlist_info),
             IF Truthy(title)
             THEN InsertOrReplace(playlist_id_map, title[2], item.playlist_id)
             ELSE playlist_id_map)

\* playlists_list of a video: its appears_in_playlists, or when that is
\* empty and video_to_playlists is not, video_to_playlists.get(video_id, []).
PlaylistsList(video, video_to_playlists) ==
    LET own == IF "appears_in_playlists" \in DOMAIN video
               THEN video.appears_in_playlists ELSE <<>>
    IN
    IF own = <<>> /\ DOMAIN video_to_playlists # {}
    THEN PlaylistsOf(video_to_playlists, video.video_id)
    ELSE own

\* The row of the videos table for an entry.  A timestamp that is not None
\* is a non-empty str, so that "a or b" takes it.
VideoRow(video, playlists_list) ==
    LET statistics == EntryGet(video, "statistics")
        stats == IF Truthy(statistics) THEN statistics ELSE Dict(<<>>)
        stamp == EntryGet(video, "video_data_extracted_at")
    IN
    [title |-> EntryGet(video, "title"),
     view_count |-> CountColumn(stats, "viewCount"),
     like_count |-> CountColumn(stats, "likeCount"),
     comment_count |-> CountColumn(stats, "commentCount"),
     playlists |-> JsonDumps(List([i \in DOMAIN playlists_list |->
                                      Str(playlists_list[i])])),
     added_at |-> EntryGet(video, "added_at"),
     extracted_at |-> IF ~IsNone(stamp) THEN stamp
                      ELSE EntryGet(video, "_extracted_at"),
     error |-> EntryGet(video, "error")]

\* (mutant: a plain INSERT that takes every row)
InsertJunctionAlways(video_playlists, row) == Append(video_playlists, row)
\* "INSERT OR IGNORE INTO video_playlists (video_id, playlist_id, added_at)"
InsertJunction(video_playlists, row) ==
    IF \E i \in DOMAIN video_playlists :
          /\ video_playlists[i].video_id = row.video_id
          /\ video_playlists[i].playlist_id = row.playlist_id
    THEN video_playlists
    ELSE Append(video_playlists, row)

\* "for playlist_name in playlists_list:" for one video.
RECURSIVE JunctionRows(_, _, _, _)
JunctionRows(video, playlists_list, playlist_id_map, video_playlists) ==
    IF playlists_list = <<>> THEN video_playlists
    ELSE LET playlist_name == Head(playlists_list) IN
         JunctionRows(video, Tail(playlists_list), playlist_id_map,
             IF playlist_name \in DOMAIN playlist_id_map
             THEN InsertJunction(video_playlists,
                      [video_id |-> video.video_id,
                       playlist_id |-> playlist_id_map[playlist_name],
                       added_at |-> EntryGet(video, "added_at")])
             ELSE video_playlists)

\* "for video in enriched_videos:" on the tables.
RECURSIVE VideoRows(_, _, _, _)
VideoRows(enriched_videos, video_to_playlists, playlist_id_map, tables) ==
    IF enriched_videos = <<>> THEN tables
    ELSE LET video == Head(enriched_videos)
             playlists_list == PlaylistsList(video, video_to_playlists)
         IN
         VideoRows(Tail(enriched_videos), video_to_playlists, playlist_id_map,
             IF video.video_id = "" THEN tables
             ELSE [tables EXCEPT
                     !.videos = InsertOrReplace(@, video.video_id,
                                                VideoRow(video, playlists_list)),
                     !.video_playlists = JunctionRows(video, playlists_list,
                                                      playlist_id_map, @)])

\* export_to_sqlite(db_path, enriched_videos, channels_by_id, playlist_info,
\* video_to_playlists), on the file at db_path; by_video is its
\* video_to_playlists.  CREATE TABLE on a database
\* that has the table raises sqlite3.OperationalError.
export_to_sqlite(file, enriched_videos, channels_by_id, playlist_info, by_video) ==
    LET path == RemoveExisting(file) IN
    IF path.exists THEN [flow |-> "raise", file |-> path]
    ELSE LET created == [EmptyDatabase EXCEPT
                            !.channels = ChannelRows(channels_by_id),
                            !.playlists = PlaylistRows(playlist_info, <<>>)]
         IN
         [flow |-> "return",
          file |-> Database(VideoRows(enriched_videos, by_video,
                                      PlaylistIdMap(playlist_info, <<>>), created))]

\* ------------------------------------------------------------------ state

VARIABLES
    cache,      \* the cache database and the connection to it
    now,        \* the clock (datetime.now), read at every successful fetch
    env,        \* the remote source: prevailing outcomes and deviations left
    pc,         \* "idle", "running", "done", "aborted", "crashed", "interrupted"
    fn,         \* the entry point of the current run
    videos,     \* the input of the loop: videos / all_videos
    video_to_playlists,
    idx,        \* input items the loop has consumed
    run,        \* the local variables of the run
    output,     \* what the run has written for its consumer
    calls,      \* history: the remote calls of the run, in order
    fetched,    \* history: the payloads remote fetches have returned
    client      \* a direct user of the Cache class: its last call and result

vars == <<cache, now, env, pc, fn, videos, video_to_playlists, idx, run, output,
          calls, fetched, client>>

\* Playlist files (enrich_playlist's input): (video id, added_at) rows.
Row(video_id, added_at) == [video_id |-> video_id, added_at |-> Str(added_at)]
PlaylistInputs ==
    {<<>>,
     <<Row("v1", "d1")>>,
     <<Row("v1", "d1"), Row("v2", "d2")>>,
     <<Row("v1", "d1"), Row("v3", "d2")>>,
     <<Row("v1", "d1"), Row("v1", "d2")>>,
     <<Row("v1", "d1"), Row("v2", "d2"), Row("v3", "d3")>>}

\* Takeout folders (process_takeout_export's input): the rows of the
\* *-videos.csv files, each with the playlist name of its file, in the order
\* the files are read.
FileRow(playlist_name, video_id, added_at) ==
    [playlist_name |-> playlist_name, video_id |-> video_id,
     added_at |-> Str(added_at)]
TakeoutInputs ==
    {<<FileRow("A", "v1", "d1")>>,
     <<FileRow("A", "v1", "d1"), FileRow("A", "v2", "d2")>>,
     <<FileRow("A", "v1", "d1"), FileRow("A", "v3", "d2"), FileRow("B", "v1", "d3")>>,
     <<FileRow("A", "v1", "d1"), FileRow("B", "v2", "d2"), FileRow("B", "v3", "d3")>>,
     <<FileRow("A", " v1", "d1"), FileRow("B", " v1", "d2")>>,
     <<FileRow("A", "v1", "d1"), FileRow("B", " v1", "d2")>>}

\* Long inputs: n distinct videos of one playlist.
LongId(i) == "v" \o ToString(i)
LongLengths == {2 * Threshold - 1, MaxLong}
LongPlaylistInputs ==
    {[i \in 1..n |-> Row(LongId(i), "d1")] : n \in LongLengths}
LongTakeoutInputs ==
    {[i \in 1..n |-> FileRow("A", LongId(i), "d1")] : n \in LongLengths}

VideoIds == {"v1", "v2", "v3"}

\* The outcomes a long run's remote calls are drawn from.
LongVideoKinds == {"api_quota", "network", "empty", "api_errorstring", "ok_nochannel"}

\* The remote source answers a call with its prevailing outcome, or, while
\* deviations are left, with another outcome of env.kinds.
\* (Only the prevailing outcome is drawn for a call the cache makes needless.)
VideoChoices(video_id) ==
    {env.base} \cup (IF env.blips > 0 /\ ~Truthy(GetVideo(cache, video_id))
                     THEN env.kinds ELSE {})
ChannelChoices(channel_id) ==
    {env.cbase} \cup (IF /\ env.blips > 0
                         /\ channel_id # ""
                         /\ ~Truthy(GetChannel(cache, channel_id))
                      THEN ChannelKinds ELSE {})
\* The channel whose fetch may follow the video's: that of the fetched
\* payload, or of the cached one.
ChannelAsked(video_id, vres) ==
    IF Truthy(GetVideo(cache, video_id))
    THEN DictGet(GetVideo(cache, video_id), "channel_id", Str(""))[2]
    ELSE IF vres[1] = "return" /\ Truthy(vres[2])
    THEN DictGet(vres[2], "channel_id", Str(""))[2]
    ELSE ""
Deviations(made, vkind, ckind) ==
    Cardinality({i \in DOMAIN made :
        \/ made[i].endpoint = "videos" /\ vkind # env.base
        \/ made[i].endpoint = "channels" /\ ckind # env.cbase})

\* The history of a step's remote calls: the outcome of each, and the
\* payloads the successful ones returned.
\* cached: the id had a row in the cache when the call was made; known: the
\* channel was in the run's channels_by_id.
CallLog(made, vkind, ckind) ==
    [i \in DOMAIN made |->
        [endpoint |-> made[i].endpoint, id |-> made[i].id,
         kind |-> IF made[i].endpoint = "videos" THEN vkind ELSE ckind,
         cached |-> made[i].id \in DOMAIN cache.view[made[i].endpoint],
         known |-> /\ made[i].endpoint = "channels"
                   /\ made[i].id \in DOMAIN run.channels_by_id]]
Returned(made) ==
    {[endpoint |-> made[i].endpoint, id |-> made[i].id, data |-> made[i].res[2]] :
        i \in {j \in DOMAIN made : made[j].res[1] = "return" /\ Truthy(made[j].res[2])}}

\* A user of the Cache class remembers what it has put and not removed or
\* cleared since (stored), and its last call with the value it returned; for
\* a put, whether it had an entry under the id (replaced).
Remember(stored, key, data) ==
    [k \in (DOMAIN stored) \cup {key} |-> IF k = key THEN data ELSE stored[k]]
Forget(stored, key) == [k \in (DOMAIN stored) \ {key} |-> stored[k]]
ClientInit == [stored |-> <<>>, last |-> [op |-> "none"]]

TypeOK ==
    /\ pc \in {"idle", "running", "done", "aborted", "crashed", "interrupted"}
    /\ fn \in {"none", "enrich_playlist", "process_takeout_export",
              "enrich_single_video", "purge_cache", "export_to_sqlite"}
    /\ now \in 0..MaxClock
    /\ idx \in 0..Len(videos)

Init ==
    /\ cache = CacheInit
    /\ now = 0
    /\ env = [base |-> "ok", cbase |-> "ok", blips |-> MaxBlips, kinds |-> VideoKinds]
    /\ pc = "idle"
    /\ fn = "none"
    /\ videos = <<>>
    /\ video_to_playlists = <<>>
    /\ idx = 0
    /\ run = RunInit
    /\ output = [written |-> FALSE]
    /\ calls = <<>>
    /\ fetched = {}
    /\ client = ClientInit

\* ------------------------------------------------------------------ actions

Stopped == pc \in {"idle", "done", "aborted", "crashed", "interrupted"}

\* What the run before this one gave, when it was an enrich_playlist run on
\* the same input that ended done and had no failed fetch: its input and its
\* video items.
Previous(input) ==
    IF /\ fn = "enrich_playlist"
       /\ pc = "done"
       /\ videos = input
       /\ \A i \in DOMAIN calls : calls[i].kind \in {"ok", "ok_nochannel"}
    THEN <<[input |-> videos, videos |-> output.videos]>>
    ELSE <<>>

\* enrich_playlist up to its loop: parse the input, initialise the locals,
\* open the cache.
BeginEnrich(input) ==
    /\ Stopped
    /\ pc' = "running"
    /\ fn' = "enrich_playlist"
    /\ videos' = input
    /\ video_to_playlists' = <<>>
    /\ idx' = 0
    /\ run' = RunInit
    /\ output' = [written |-> FALSE, before |-> Previous(input), rows |-> <<>>]
    /\ calls' = <<>>
    /\ UNCHANGED <<cache, now, env, fetched, client>>

\* process_takeout_export up to its enrichment loop.
BeginTakeout(rows) ==
    LET collected == CollectVideos(rows, <<>>, <<>>) IN
    /\ Stopped
    /\ pc' = "running"
    /\ fn' = "process_takeout_export"
    /\ videos' = collected.all_videos
    /\ video_to_playlists' = collected.video_to_playlists
    /\ idx' = 0
    /\ run' = RunInit
    /\ output' = [written |-> FALSE, before |-> <<>>, rows |-> rows]
    /\ calls' = <<>>
    /\ UNCHANGED <<cache, now, env, fetched, client>>

\* The effect of one loop iteration r on the state; the loop is left on a
\* break (return without output) or on an exception, and the cache closed.
Iterate(r, vkind, ckind) ==
    /\ r.t <= MaxClock
    /\ Deviations(r.calls, vkind, ckind) <= env.blips
    /\ env' = [env EXCEPT !.blips = @ - Deviations(r.calls, vkind, ckind)]
    /\ run' = r.l
    /\ now' = r.t
    /\ idx' = idx + 1
    /\ calls' = calls \o CallLog(r.calls, vkind, ckind)
    /\ fetched' = fetched \cup Returned(r.calls)
    /\ pc' = CASE r.flow = "break" -> "aborted"
                [] r.flow = "raise" -> "crashed"
                [] OTHER -> "running"
    /\ cache' = IF r.flow \in {"break", "raise"} THEN Close(r.c) ELSE r.c
    /\ UNCHANGED <<fn, videos, video_to_playlists, output, client>>

\* One iteration of enrich_playlist's loop.
EnrichStep ==
    /\ pc = "running"
    /\ fn = "enrich_playlist"
    /\ idx < Len(videos)
    /\ LET video == videos[idx + 1] IN
       \E vkind \in VideoChoices(video.video_id) :
         LET vres == fetch_video_metadata(video.video_id,
                                          VideoResponse(vkind, video.video_id))
             channel_id == ChannelAsked(video.video_id, vres)
         IN
         \E ckind \in ChannelChoices(channel_id) :
           LET cres == fetch_channel_metadata(channel_id, ChannelResponse(ckind)) IN
           \E r \in {EnrichItem(run, cache, now, video, vres, cres)} :
              Iterate(r, vkind, ckind)

\* One iteration of process_takeout_export's loop.
TakeoutStep ==
    /\ pc = "running"
    /\ fn = "process_takeout_export"
    /\ idx < Len(videos)
    /\ LET video == videos[idx + 1]
           video_id == Strip(video.video_id) IN
       \E vkind \in VideoChoices(video_id) :
         LET vres == fetch_video_metadata(video_id, VideoResponse(vkind, video_id))
             channel_id == ChannelAsked(video_id, vres)
         IN
         \E ckind \in ChannelChoices(channel_id) :
           LET cres == fetch_channel_metadata(channel_id, ChannelResponse(ckind)) IN
           \E r \in {TakeoutItem(run, cache, now, video, video_to_playlists,
                                  vres, cres)} :
              Iterate(r, vkind, ckind)

\* The channels_output of a run's channels_by_id.
ChannelsOutput(channels_by_id) ==
    [cid \in DOMAIN channels_by_id |->
        [id |-> DictGet(channels_by_id[cid], "id", Str(cid)),
         title |-> DictGet(channels_by_id[cid], "title", None),
         channel_data_extracted_at |->
             DictGet(channels_by_id[cid], "_extracted_at", None),
         subscriber_count |-> DictGet(channels_by_id[cid], "subscriber_count", None)]]

\* The end of a run whose loop ran to the end of the input: the cache is
\* closed and the output written.
Finish ==
    /\ pc = "running"
    /\ idx = Len(videos)
    /\ ~run.aborted
    /\ pc' = "done"
    /\ cache' = Close(cache)
    /\ output' =
         [written |-> TRUE,
          before |-> output.before,
          rows |-> output.rows,
          metadata |-> [total_videos |-> Len(videos),
                        total_channels |-> Cardinality(DOMAIN run.channels_by_id),
                        video_cache_hits |-> run.video_cache_hits,
                        channel_cache_hits |-> run.channel_cache_hits,
                        api_calls |-> run.api_calls,
                        api_success |-> run.api_success,
                        api_errors |-> run.api_errors],
          channels |-> ChannelsOutput(run.channels_by_id),
          videos |-> run.enriched_videos]
    /\ UNCHANGED <<now, env, fn, videos, video_to_playlists, idx, run, calls, fetched,
                   client>>

\* The process is stopped from outside between two iterations.
Interrupt ==
    /\ pc = "running"
    /\ pc' = "interrupted"
    /\ cache' = Close(cache)
    /\ UNCHANGED <<now, env, fn, videos, video_to_playlists, idx, run, output,
                   calls, fetched, client>>

\* purge_cache(), the whole of the "cache purge" command.
PurgeCache ==
    /\ Stopped
    /\ fn # "purge_cache"
    /\ cache' = Close(Clear(cache, "all"))
    /\ pc' = "done"
    /\ fn' = "purge_cache"
    /\ videos' = <<>>
    /\ video_to_playlists' = <<>>
    /\ idx' = 0
    /\ run' = RunInit
    /\ output' = [written |-> FALSE]
    /\ calls' = <<>>
    /\ UNCHANGED <<now, env, fetched, client>>

\* enrich_single_video(video_id, output_path, api_key): no exception of the
\* remote calls is handled (flow "raise"); the payload is the output.
SingleVideo(c, t, video_id, vres, cres) ==
    LET cached_video == GetVideo(c, video_id)
        v == IF Truthy(cached_video)
             THEN StepResult(RunInit, c, t, "next", cached_video)
             ELSE Called(
                    IF vres[1] = "raise"
                    THEN StepResult(RunInit, c, t, "raise", None)
                    ELSE IF Truthy(vres[3])
                    THEN StepResult(RunInit, c, t, "return",
                           [video_id |-> video_id,
                            error |-> DictGet(vres[3], "message",
                                              Str(<<"API", "error">>)),
                            error_details |-> vres[3]])
                    ELSE IF ~Truthy(vres[2])
                    THEN StepResult(RunInit, c, t, "return",
                           [video_id |-> video_id,
                            error |-> Str(<<"Video", "not", "found">>)])
                    ELSE LET stamped == DictSet(vres[2], "_extracted_at", Str(t)) IN
                         StepResult(RunInit, PutVideo(c, video_id, stamped, t), t + 1,
                                    "next", stamped),
                    "videos", video_id, vres)
    IN
    IF v.flow # "next" THEN v
    ELSE LET channel_id == DictGet(v.payload, "channel_id", None)
             cached_channel == IF Truthy(channel_id)
                               THEN GetChannel(v.c, channel_id[2]) ELSE None
             ch == IF ~Truthy(channel_id)
                   THEN StepResult(RunInit, v.c, v.t, "next", None)
                   ELSE IF Truthy(cached_channel)
                   THEN StepResult(RunInit, v.c, v.t, "next", cached_channel)
                   ELSE Called(
                          IF cres[1] = "raise"
                          THEN StepResult(RunInit, v.c, v.t, "raise", None)
                          ELSE IF Truthy(cres[2])
                          THEN LET stamped ==
                                       DictSet(cres[2], "_extracted_at", Str(v.t)) IN
                               StepResult(RunInit,
                                          PutChannel(v.c, channel_id[2], stamped, v.t),
                                          v.t + 1, "next", stamped)
                          ELSE StepResult(RunInit, v.c, v.t, "next", None),
                          "channels", channel_id[2], cres)
             r == [ch EXCEPT !.calls = v.calls \o @]
         IN
         IF ch.flow = "raise" THEN r
         ELSE [r EXCEPT !.flow = "return",
                        !.payload =
                            IF Truthy(ch.payload)
                            THEN [video |-> v.payload, channel |-> ch.payload]
                            ELSE [video |-> v.payload]]

EnrichSingleVideo(video_id) ==
    /\ Stopped
    /\ \E vkind \in VideoChoices(video_id) :
       LET vres == fetch_video_metadata(video_id, VideoResponse(vkind, video_id))
           channel_id == ChannelAsked(video_id, vres)
       IN
       \E ckind \in ChannelChoices(channel_id) :
         LET cres == fetch_channel_metadata(channel_id, ChannelResponse(ckind)) IN
         \E r \in {SingleVideo(cache, now, video_id, vres, cres)} :
         /\ r.t <= MaxClock
         /\ Deviations(r.calls, vkind, ckind) <= env.blips
         /\ env' = [env EXCEPT !.blips = @ - Deviations(r.calls, vkind, ckind)]
         /\ now' = r.t
         /\ cache' = Close(r.c)
         /\ calls' = CallLog(r.calls, vkind, ckind)
         /\ fetched' = fetched \cup Returned(r.calls)
         /\ pc' = IF r.flow = "raise" THEN "crashed" ELSE "done"
         /\ output' = IF r.flow = "raise" THEN [written |-> FALSE]
                       ELSE [written |-> TRUE, single |-> r.payload]
    /\ fn' = "enrich_single_video"
    /\ videos' = <<>>
    /\ video_to_playlists' = <<>>
    /\ idx' = 0
    /\ run' = RunInit
    /\ UNCHANGED client

Next ==
    \/ \E video_id \in VideoIds : EnrichSingleVideo(video_id)
    \/ \E input \in PlaylistInputs : BeginEnrich(input)
    \/ \E rows \in TakeoutInputs : BeginTakeout(rows)
    \/ EnrichStep
    \/ TakeoutStep
    \/ Finish
    \/ Interrupt
    \/ PurgeCache

Spec == Init /\ [][Next]_vars

\* Long runs against a source in an outage: the prevailing outcome of a
\* video fetch is a failure, and at most MaxBlips calls deviate from it.
LongBases == {"api_quota", "network", "empty"}
InitBreaker ==
    /\ cache = CacheInit
    /\ now = 0
    /\ \E base \in LongBases :
         env = [base |-> base, cbase |-> "ok", blips |-> MaxBlips,
                kinds |-> LongVideoKinds]
    /\ pc = "idle"
    /\ fn = "none"
    /\ videos = <<>>
    /\ video_to_playlists = <<>>
    /\ idx = 0
    /\ run = RunInit
    /\ output = [written |-> FALSE]
    /\ calls = <<>>
    /\ fetched = {}
    /\ client = ClientInit

\* A long run is the only run of its behaviour.
NextBreaker ==
    \/ \E input \in LongPlaylistInputs : pc = "idle" /\ BeginEnrich(input)
    \/ \E rows \in LongTakeoutInputs : pc = "idle" /\ BeginTakeout(rows)
    \/ EnrichStep
    \/ TakeoutStep
    \/ Finish

SpecBreaker == InitBreaker /\ [][NextBreaker]_vars

\* Long runs of enrich_playlist against a source whose errors say "not
\* found" in one spelling or another, under the status 200 (no item), 404
\* and 503, with at most MaxBlips quota or server errors between them.
SaysNotFoundKinds == {"empty", "api_notfound", "http_503_notfound"}
InitNotFound ==
    /\ cache = CacheInit
    /\ now = 0
    /\ \E base \in SaysNotFoundKinds :
         env = [base |-> base, cbase |-> "ok", blips |-> MaxBlips,
                kinds |-> SaysNotFoundKinds \cup {"api_quota", "http_500"}]
    /\ pc = "idle"
    /\ fn = "none"
    /\ videos = <<>>
    /\ video_to_playlists = <<>>
    /\ idx = 0
    /\ run = RunInit
    /\ output = [written |-> FALSE]
    /\ calls = <<>>
    /\ fetched = {}
    /\ client = ClientInit
NextNotFound ==
    \/ \E input \in LongPlaylistInputs : pc = "idle" /\ BeginEnrich(input)
    \/ EnrichStep
    \/ Finish
SpecNotFound == InitNotFound /\ [][NextNotFound]_vars

\* Long runs against a cache that earlier runs have left: it holds some of
\* the videos, fetched at time 0, and no channel (the channel fetches of
\* those runs failed, or the videos name no channel).  The video fetches of
\* the run fail; the channel fetches have their own prevailing outcome.
WarmSets ==
    {{LongId(Threshold \div 2)},
     {LongId(Threshold)},
     {LongId(i) : i \in Threshold..MaxLong}}
WarmPayload(video_id, kind) ==
    fetch_video_metadata(video_id, VideoResponse(kind, video_id))[2]
WarmCache(ids, kind) ==
    LET rows == [video_id \in ids |->
                    [timestamp |-> 0,
                     content |-> JsonDumps(DictSet(WarmPayload(video_id, kind),
                                                   "_extracted_at", Str(0)))]]
    IN [disk |-> [videos |-> rows, channels |-> <<>>],
        view |-> [videos |-> rows, channels |-> <<>>]]
WarmChannelBases == {"ok", "network", "empty"}
InitWarm ==
    /\ \E ids \in WarmSets, kind \in {"ok", "ok_nochannel"} :
         /\ cache = WarmCache(ids, kind)
         /\ fetched = {[endpoint |-> "videos", id |-> video_id,
                         data |-> WarmPayload(video_id, kind)] : video_id \in ids}
    /\ now = 0
    /\ \E cbase \in WarmChannelBases :
         env = [base |-> "network", cbase |-> cbase, blips |-> MaxBlips,
                kinds |-> {"network"}]
    /\ pc = "idle"
    /\ fn = "none"
    /\ videos = <<>>
    /\ video_to_playlists = <<>>
    /\ idx = 0
    /\ run = RunInit
    /\ output = [written |-> FALSE]
    /\ calls = <<>>
    /\ client = ClientInit

NextWarm ==
    \/ pc = "idle" /\ BeginEnrich([i \in 1..MaxLong |-> Row(LongId(i), "d1")])
    \/ pc = "idle" /\ BeginTakeout([i \in 1..MaxLong |-> FileRow("A", LongId(i), "d1")])
    \/ EnrichStep
    \/ TakeoutStep
    \/ Finish

SpecWarm == InitWarm /\ [][NextWarm]_vars

\* ------------------------------------------------------------------ Cache class

\* The ids and payloads a direct user of the Cache class calls it with.  "x1"
\* is used as a video id and as a channel id.
CacheVideoIds == {"x1", "v2"}
CacheChannelIds == {"x1"}
Payloads ==
    {Dict(<<>>),
     Dict([title |-> Str("a"), channel_id |-> None]),
     Dict([title |-> Str("b"), statistics |-> Dict([viewCount |-> None])])}

\* The clock advances between two calls, or does not.
Ticks == {now} \cup (IF now < MaxClock THEN {now + 1} ELSE {})

CacheCall(c, t, stored, last) ==
    /\ pc = "idle"
    /\ cache' = c
    /\ now' = t
    /\ client' = [stored |-> stored, last |-> last]
    /\ UNCHANGED <<env, pc, fn, videos, video_to_playlists, idx, run, output,
                   calls, fetched>>

CachePutVideo(video_id, data) ==
    \E t \in Ticks :
        CacheCall(PutVideo(cache, video_id, data, t), t,
                  Remember(client.stored, <<"video", video_id>>, data),
                  [op |-> "put_video", id |-> video_id,
                   replaced |-> <<"video", video_id>> \in DOMAIN client.stored])

CacheGetVideo(video_id) ==
    CacheCall(cache, now, client.stored,
              [op |-> "get_video", id |-> video_id,
               value |-> GetVideo(cache, video_id)])

CacheRemoveVideo(video_id) ==
    CacheCall(RemoveVideo(cache, video_id), now,
              Forget(client.stored, <<"video", video_id>>),
              [op |-> "remove_video", id |-> video_id,
               value |-> RemoveVideoResult(cache, video_id)])

CachePutChannel(channel_id, data) ==
    \E t \in Ticks :
        CacheCall(PutChannel(cache, channel_id, data, t), t,
                  Remember(client.stored, <<"channel", channel_id>>, data),
                  [op |-> "put_channel", id |-> channel_id,
                   replaced |-> <<"channel", channel_id>> \in DOMAIN client.stored])

CacheGetChannel(channel_id) ==
    CacheCall(cache, now, client.stored,
              [op |-> "get_channel", id |-> channel_id,
               value |-> GetChannel(cache, channel_id)])

CacheRemoveChannel(channel_id) ==
    CacheCall(RemoveChannel(cache, channel_id), now,
              Forget(client.stored, <<"channel", channel_id>>),
              [op |-> "remove_channel", id |-> channel_id,
               value |-> RemoveChannelResult(cache, channel_id)])

\* The table arguments of Cache.clear: the two names, None ("all") and a
\* name that is neither.
ClearArguments == {"videos", "channels", "all", "video"}
Cleared(table) ==
    IF table = "videos" THEN {"video"}
    ELSE IF table = "channels" THEN {"channel"}
    ELSE {"video", "channel"}
CacheClear(table) ==
    CacheCall(Clear(cache, table), now,
              [k \in {j \in DOMAIN client.stored : j[1] \notin Cleared(table)} |->
                  client.stored[k]],
              [op |-> "clear", table |-> table, before |-> Stats(cache)])

CacheStats ==
    CacheCall(cache, now, client.stored, [op |-> "stats", value |-> Stats(cache)])

NextCache ==
    \/ \E video_id \in CacheVideoIds, data \in Payloads : CachePutVideo(video_id, data)
    \/ \E video_id \in CacheVideoIds : CacheGetVideo(video_id)
    \/ \E video_id \in CacheVideoIds : CacheRemoveVideo(video_id)
    \/ \E channel_id \in CacheChannelIds, data \in Payloads :
           CachePutChannel(channel_id, data)
    \/ \E channel_id \in CacheChannelIds : CacheGetChannel(channel_id)
    \/ \E channel_id \in CacheChannelIds : CacheRemoveChannel(channel_id)
    \/ \E table \in ClearArguments : CacheClear(table)
    \/ CacheStats

SpecCache == Init /\ [][NextCache]_vars

\* ------------------------------------------------------------------ claims

\* The outcomes of a video fetch by class: the source has no such video;
\* the call failed for a passing reason (quota, server error, network).
NotFoundKinds == {"empty", "api_notfound"}
TransientKinds == {"api_quota", "http_500", "network"}
IsVideoCall(call, kinds) == call.endpoint = "videos" /\ call.kind \in kinds

\* The number of transient video-fetch failures at the end of the run's
\* remote calls, with no other call after or between them.
TransientStreak ==
    LET n == Len(calls) IN
    CHOOSE k \in 0..n :
        /\ \A i \in (n - k + 1)..n : IsVideoCall(calls[i], TransientKinds)
        /\ k = n \/ ~IsVideoCall(calls[n - k], TransientKinds)

\* Calls i..j of the run are video fetches with an outcome of kinds.
CallsAre(i, j, kinds) ==
    /\ j <= Len(calls)
    /\ \A k \in i..j : IsVideoCall(calls[k], kinds)

\* C1: in enrich_playlist the run is aborted exactly when the counter of
\* consecutive failures has reached 10: ten transient video-fetch failures
\* in a row abort it right after the tenth, fewer do not, and an aborted run
\* looks up and fetches no further item.
C1_EnrichAbortsAtTen ==
    fn = "enrich_playlist" =>
        /\ run.aborted <=> run.consecutive_api_errors >= Threshold
        /\ run.aborted <=> pc = "aborted"
        /\ TransientStreak >= Threshold => pc = "aborted"
        /\ pc = "aborted" => /\ TransientStreak = Threshold
                             /\ idx = Len(calls)
                             /\ ~ENABLED EnrichStep

\* Nine failures, a success, then ten failures: the run went on after the
\* success and stopped at the tenth failure, before the end of its input.
C1_Witness ==
    /\ fn = "enrich_playlist"
    /\ pc = "aborted"
    /\ Len(calls) = 2 * Threshold
    /\ CallsAre(1, Threshold - 1, TransientKinds)
    /\ CallsAre(Threshold, Threshold, {"ok_nochannel"})
    /\ CallsAre(Threshold + 1, 2 * Threshold, TransientKinds)
    /\ idx = 2 * Threshold

\* C2: in process_takeout_export ten transient video-fetch failures in a row
\* abort the run right after the tenth.
C2_TakeoutAbortsAtTen ==
    fn = "process_takeout_export" =>
        (TransientStreak >= Threshold => pc = "aborted")

\* C3: a run all of whose video fetches end in not-found is never aborted:
\* every item has its error entry, and the run ends done.
AllNotFound ==
    /\ fn \in {"enrich_playlist", "process_takeout_export"}
    /\ Len(calls) = idx
    /\ CallsAre(1, idx, NotFoundKinds)
C3_NotFoundNeverAborts ==
    AllNotFound =>
        /\ pc \in {"running", "done"}
        /\ ~run.aborted
        /\ Len(run.enriched_videos) = idx
        /\ \A i \in 1..idx :
              /\ "error" \in DOMAIN run.enriched_videos[i]
              /\ run.enriched_videos[i].video_id = Strip(videos[i].video_id)
        /\ idx = Len(videos) => pc = "done" \/ ENABLED Finish

C3_Witness ==
    /\ AllNotFound
    /\ fn = "process_takeout_export"
    /\ idx = MaxLong
    /\ pc = "done"

\* C4: in enrich_playlist a not-found outcome resets the counter of
\* consecutive failures and is counted as not found, so that the counter is
\* the number of transient failures since the last other outcome.
C4_NotFoundResets ==
    (fn = "enrich_playlist" /\ Len(calls) = idx) =>
        /\ run.consecutive_api_errors = TransientStreak
        /\ run.videos_not_found =
              Cardinality({i \in DOMAIN calls : IsVideoCall(calls[i], NotFoundKinds)})

\* Nine failures, a not-found, nine failures: not aborted.
C4_Witness ==
    /\ fn = "enrich_playlist"
    /\ pc = "done"
    /\ Len(calls) = 2 * Threshold - 1
    /\ CallsAre(1, Threshold - 1, TransientKinds)
    /\ CallsAre(Threshold, Threshold, {"empty"})
    /\ CallsAre(Threshold + 1, 2 * Threshold - 1, TransientKinds)
    /\ run.videos_not_found = 1
    /\ ~run.aborted

\* C5: in process_takeout_export a video the source reports as not found
\* resets the counter of consecutive failures and is counted as not found.
C5_TakeoutNotFoundResets ==
    (/\ fn = "process_takeout_export"
     /\ calls # <<>>
     /\ IsVideoCall(calls[Len(calls)], {"empty"})) =>
        /\ run.consecutive_api_errors = 0
        /\ run.videos_not_found >= 1

\* C6: within a run the remote channel fetch is called at most once for a
\* channel id, whatever the outcome of its first call.
C6_ChannelFetchedOnce ==
    fn \in {"enrich_playlist", "process_takeout_export"} =>
        \A i, j \in DOMAIN calls :
            (calls[i].endpoint = "channels" /\ calls[j].endpoint = "channels"
             /\ calls[i].id = calls[j].id) => i = j

\* C7: a channel is fetched remotely only when it is neither in the run's
\* channels_by_id nor in the cache, and channel_cache_hits counts each
\* channel id once: with the successful channel fetches, the hits make up
\* the channels of channels_by_id.
OkChannelCalls ==
    {i \in DOMAIN calls : calls[i].endpoint = "channels" /\ calls[i].kind = "ok"}
C7_ChannelLookupOrder ==
    /\ \A i \in DOMAIN calls :
          calls[i].endpoint = "channels" => ~calls[i].cached /\ ~calls[i].known
    /\ fn \in {"enrich_playlist", "process_takeout_export"} =>
          run.channel_cache_hits + Cardinality(OkChannelCalls)
              = Cardinality(DOMAIN run.channels_by_id)

\* Two videos of one channel that the cache holds: one hit, no channel call.
C7_Witness ==
    /\ fn = "enrich_playlist"
    /\ Len(run.enriched_videos) = 2
    /\ \A i \in 1..2 : /\ "error" \notin DOMAIN run.enriched_videos[i]
                         /\ run.enriched_videos[i].channel_id = Str("c1")
    /\ run.enriched_videos[1].video_id # run.enriched_videos[2].video_id
    /\ run.channel_cache_hits = 1
    /\ \A i \in DOMAIN calls : calls[i].endpoint = "videos"
    /\ calls # <<>>

\* C8: every row of the cache holds the payload a successful remote fetch of
\* that id returned, with its extraction time.
IsFetchedPayload(endpoint, id, payload) ==
    \E f \in fetched :
        /\ f.endpoint = endpoint
        /\ f.id = id
        /\ \E t \in 0..MaxClock : payload = DictSet(f.data, "_extracted_at", Str(t))
RowsAreFetched(tables) ==
    \A endpoint \in {"videos", "channels"} :
        \A id \in DOMAIN tables[endpoint] :
            IsFetchedPayload(endpoint, id, JsonLoads(tables[endpoint][id].content))
C8_OnlyFetchedIsCached ==
    RowsAreFetched(cache.view) /\ RowsAreFetched(cache.disk)

\* A run has cached one video and failed on another, which is not cached.
C8_Witness ==
    /\ fn = "enrich_playlist"
    /\ \E i \in DOMAIN calls : calls[i].endpoint = "videos" /\ calls[i].kind = "ok"
    /\ \E i \in DOMAIN calls :
          /\ calls[i].endpoint = "videos"
          /\ calls[i].kind \notin {"ok", "ok_nochannel"}
          /\ calls[i].id \notin DOMAIN cache.disk.videos
    /\ DOMAIN cache.disk.videos # {}
    /\ DOMAIN cache.disk.channels # {}

TableOf(op) == IF op \in {"put_video", "get_video", "remove_video"}
               THEN "videos" ELSE "channels"
KeyOf(last) == <<IF TableOf(last.op) = "videos" THEN "video" ELSE "channel", last.id>>

\* C11: a put under an id that has an entry leaves one entry for the id,
\* with the payload of this put and nothing of the former one and a
\* timestamp not earlier than the former; stats() counts the id once.
PutStep ==
    client'.last.op \in {"put_video", "put_channel"} =>
        LET table == TableOf(client'.last.op)
            id == client'.last.id
        IN
        /\ id \in DOMAIN cache'.view[table]
        /\ cache'.view[table][id].content = JsonDumps(client'.stored[KeyOf(client'.last)])
        /\ cache'.disk = cache'.view
        /\ IF id \in DOMAIN cache.view[table]
           THEN /\ cache'.view[table][id].timestamp >= cache.view[table][id].timestamp
                /\ Stats(cache') = Stats(cache)
           ELSE Stats(cache')[table] = Stats(cache)[table] + 1
C11_OverwriteByPut == [][PutStep]_vars

\* A put of the empty payload over an entry of the id.
C11_Witness ==
    /\ client.last.op = "put_video"
    /\ client.last.replaced
    /\ client.last.id = "x1"
    /\ GetVideo(cache, "x1") = Dict(<<>>)
    /\ cache.view.videos["x1"].timestamp = MaxClock
    /\ Stats(cache).videos = 1

\* C12: remove returns whether the id had an entry; after it, and for an id
\* that was never stored, get returns None until the next put.
RemoveStep ==
    client'.last.op \in {"remove_video", "remove_channel"} =>
        /\ client'.last.value = (KeyOf(client'.last) \in DOMAIN client.stored)
        /\ client'.last.value = (client'.last.id \in DOMAIN cache.view[TableOf(client'.last.op)])
AbsentIsNone ==
    /\ client.last.op \in {"remove_video", "remove_channel"} =>
          /\ client.last.id \notin DOMAIN cache.view[TableOf(client.last.op)]
          /\ client.last.id \notin DOMAIN cache.disk[TableOf(client.last.op)]
    /\ (/\ client.last.op \in {"get_video", "get_channel"}
         /\ KeyOf(client.last) \notin DOMAIN client.stored) => client.last.value = None
    /\ \A video_id \in CacheVideoIds :
          <<"video", video_id>> \notin DOMAIN client.stored => GetVideo(cache, video_id) = None
    /\ \A channel_id \in CacheChannelIds :
          <<"channel", channel_id>> \notin DOMAIN client.stored =>
              GetChannel(cache, channel_id) = None
C12_Remove == []AbsentIsNone /\ [][RemoveStep]_vars

\* A remove that deleted the video of an id whose channel entry stays.
C12_Witness ==
    /\ client.last.op = "remove_video"
    /\ client.last.id = "x1"
    /\ client.last.value = TRUE
    /\ GetVideo(cache, "x1") = None
    /\ GetChannel(cache, "x1") # None

\* C13: clear('videos') empties the videos and leaves the channels as they
\* are, clear('channels') the reverse, clear() empties both.
ClearStep ==
    client'.last.op = "clear" =>
        /\ cache'.disk = cache'.view
        /\ client'.last.table = "videos" =>
              cache'.view = [videos |-> <<>>, channels |-> cache.view.channels]
        /\ client'.last.table = "channels" =>
              cache'.view = [videos |-> cache.view.videos, channels |-> <<>>]
        /\ client'.last.table = "all" => cache'.view = EmptyTables
C13_ClearByNamespace == [][ClearStep]_vars

\* clear('videos') has deleted two videos and left the channel.
C13_Witness ==
    /\ client.last.op = "clear"
    /\ client.last.table = "videos"
    /\ client.last.before = [videos |-> 2, channels |-> 1]
    /\ Stats(cache) = [videos |-> 0, channels |-> 1]

\* C14: a put or remove of (kind, id) changes no entry of the other kind and
\* no entry of the kind under another id.
OthersUnchanged(table, id) ==
    /\ \A other \in {"videos", "channels"} \ {table} :
          cache'.view[other] = cache.view[other] /\ cache'.disk[other] = cache.disk[other]
    /\ DOMAIN cache'.view[table] \ {id} = DOMAIN cache.view[table] \ {id}
    /\ \A k \in DOMAIN cache.view[table] \ {id} :
          cache'.view[table][k] = cache.view[table][k]
WriteStep ==
    client'.last.op \in {"put_video", "put_channel", "remove_video", "remove_channel"} =>
        OthersUnchanged(TableOf(client'.last.op), client'.last.id)
C14_NamespacesIndependent == [][WriteStep]_vars

\* A put of a channel under an id that is a video's id too.
C14_Witness ==
    /\ client.last.op = "put_channel"
    /\ client.last.id = "x1"
    /\ DOMAIN cache.view.videos = {"x1", "v2"}
    /\ GetVideo(cache, "x1") # GetChannel(cache, "x1")
    /\ GetVideo(cache, "x1") = client.stored[<<"video", "x1">>]

\* C15: a run of enrich_playlist over N distinct videos of one channel, with
\* nothing in the cache at its start and every fetch answered, ends with N
\* video items, that one channel, api_calls = N + 1 and no video cache hit.
ColdRun ==
    /\ fn = "enrich_playlist"
    /\ pc = "done"
    /\ videos # <<>>
    /\ \A i, j \in DOMAIN videos : videos[i].video_id = videos[j].video_id => i = j
    /\ \A i \in DOMAIN videos : ChannelOf(videos[i].video_id) = "c1"
    /\ \A f \in fetched :
          \E i \in DOMAIN calls : calls[i].endpoint = f.endpoint /\ calls[i].id = f.id
    /\ \A i \in DOMAIN calls : calls[i].kind = "ok"
C15_ColdRun ==
    ColdRun =>
        /\ output.written
        /\ Len(output.videos) = Len(videos)
        /\ \A i \in DOMAIN videos :
              /\ output.videos[i].video_id = videos[i].video_id
              /\ "error" \notin DOMAIN output.videos[i]
        /\ DOMAIN output.channels = {"c1"}
        /\ output.metadata.total_videos = Len(videos)
        /\ output.metadata.total_channels = 1
        /\ output.metadata.api_calls = Len(videos) + 1
        /\ output.metadata.video_cache_hits = 0

\* v1 and v2 of channel c1: three calls.
C15_Witness ==
    /\ ColdRun
    /\ Len(videos) = 2
    /\ Len(calls) = 3
    /\ output.metadata.api_calls = 3

\* C16: a run of enrich_playlist right after a run on the same input that
\* ended done with no failed fetch has a video cache hit for every item,
\* makes no remote call and gives the same video items, extraction time
\* included.
WarmRerun ==
    /\ fn = "enrich_playlist"
    /\ pc = "done"
    /\ output.before # <<>>
    /\ output.before[1].input = videos
C16_WarmRerun ==
    WarmRerun =>
        /\ run.video_cache_hits = Len(videos)
        /\ run.api_calls = 0
        /\ calls = <<>>
        /\ output.metadata.video_cache_hits = Len(videos)
        /\ output.metadata.api_calls = 0
        /\ output.videos = output.before[1].videos

\* The second run over two videos fetched at different times.
C16_Witness ==
    /\ WarmRerun
    /\ Len(videos) = 2
    /\ run.video_cache_hits = 2
    /\ output.videos[1].video_data_extracted_at # output.videos[2].video_data_extracted_at
    /\ output.videos[1].video_data_extracted_at # None
    /\ output.videos = output.before[1].videos

\* An iteration of the loop of function f over a video the cache holds.
HitStep(f) ==
    /\ fn = f
    /\ pc = "running"
    /\ idx' = idx + 1
    /\ Truthy(GetVideo(cache, Strip(videos[idx + 1].video_id)))
\* The remote calls an iteration makes.
NewCalls == SubSeq(calls', Len(calls) + 1, Len(calls'))

\* C17: in enrich_playlist an item whose video the cache holds is not
\* fetched, adds one to video_cache_hits and, when its channel needs no
\* remote call, leaves the counter of consecutive failures as it is: the
\* transient failures of a run whose only remote calls they are add up
\* across the hits between them.
EnrichHitStep ==
    HitStep("enrich_playlist") =>
        /\ \A i \in DOMAIN NewCalls : NewCalls[i].endpoint # "videos"
        /\ run'.video_cache_hits = run.video_cache_hits + 1
        /\ NewCalls = <<>> =>
              run'.consecutive_api_errors = run.consecutive_api_errors
FailuresAddUp ==
    (fn = "enrich_playlist" /\ CallsAre(1, Len(calls), TransientKinds)) =>
        /\ run.consecutive_api_errors = Len(calls)
        /\ Len(calls) >= Threshold => pc = "aborted"
C17_HitKeepsCounter == []FailuresAddUp /\ [][EnrichHitStep]_vars

\* Ten failures with a hit between the fourth and the fifth: aborted at the
\* eleventh item.
C17_Witness ==
    /\ fn = "enrich_playlist"
    /\ pc = "aborted"
    /\ idx = Threshold + 1
    /\ run.video_cache_hits = 1
    /\ Len(calls) = Threshold
    /\ CallsAre(1, Threshold, TransientKinds)
    /\ "error" \notin DOMAIN run.enriched_videos[Threshold \div 2]

\* C18: in process_takeout_export an item whose video the cache holds, and
\* that makes no remote call, leaves the counter of consecutive failures as
\* it is.
TakeoutHitStep ==
    (HitStep("process_takeout_export") /\ NewCalls = <<>>) =>
        run'.consecutive_api_errors = run.consecutive_api_errors
C18_TakeoutHitKeepsCounter == [][TakeoutHitStep]_vars

\* C19: when enrich_playlist is aborted on a failed channel fetch, the video
\* of that item is among the video items of the run.
C19_ChannelAbortKeepsVideo ==
    (/\ fn = "enrich_playlist"
     /\ pc = "aborted"
     /\ calls[Len(calls)].endpoint = "channels") =>
        /\ Len(run.enriched_videos) = idx
        /\ run.enriched_videos[idx].video_id = videos[idx].video_id
        /\ "error" \notin DOMAIN run.enriched_videos[idx]

\* C20: an aborted run gives its consumer the video items and channels it
\* had, marked aborted, with the counts of its errors.
C20_AbortKeepsPartialResults ==
    pc = "aborted" =>
        /\ output.written
        /\ output.videos = run.enriched_videos
        /\ output.channels = ChannelsOutput(run.channels_by_id)
        /\ output.metadata.api_errors = run.api_errors

\* The outcomes of a video fetch that end in an exception that is no
\* RequestException: the body's "error" is not an object.
UnexpectedKinds == {"api_errorstring"}
LastCall == calls[Len(calls)]
LastEntry == run.enriched_videos[Len(run.enriched_videos)]

\* C21: a video fetch that fails with an unexpected exception leaves an
\* error entry for the item and a counter of consecutive failures that it
\* has incremented.
C21_UnexpectedCounts ==
    (/\ fn \in {"enrich_playlist", "process_takeout_export"}
     /\ calls # <<>>
     /\ IsVideoCall(LastCall, UnexpectedKinds)) =>
        /\ pc # "crashed"
        /\ run.enriched_videos # <<>>
        /\ LastEntry.video_id = LastCall.id
        /\ "error" \in DOMAIN LastEntry
        /\ run.consecutive_api_errors >= 1

IsBatchRun == fn \in {"enrich_playlist", "process_takeout_export"}

\* C22: a failure of one item does not stop a run that is not aborted: the
\* run never ends on an exception, and the entries number the items
\* processed so far, the whole input when the run is done.
C22_FailureNeverStops ==
    IsBatchRun =>
        /\ pc # "crashed"
        /\ (pc = "running" => Len(run.enriched_videos) = idx)
        /\ (pc = "done" => Len(output.videos) = Len(videos))

\* The fields of an entry that come from the video's metadata.
MetadataFields == {"title", "statistics", "video_data_extracted_at"}
HasError(entry) == "error" \in DOMAIN entry /\ ~IsNone(entry.error)
HasMetadata(entry) == MetadataFields \cap DOMAIN entry # {}
HasAllMetadata(entry) == MetadataFields \subseteq DOMAIN entry

\* C23: every entry of the videos list a run writes carries either an error
\* and no metadata field, or the metadata fields and no error.
C23_ErrorOrMetadata ==
    (IsBatchRun /\ pc = "done") =>
        \A i \in DOMAIN output.videos :
            LET entry == output.videos[i] IN
            \/ HasError(entry) /\ ~HasMetadata(entry)
            \/ HasAllMetadata(entry) /\ ~HasError(entry)

\* The id under which the i-th input item is processed.
InputId(i) ==
    IF fn = "process_takeout_export" THEN Strip(videos[i].video_id)
    ELSE videos[i].video_id

\* C24: at every point of a run the video ids of the entries accumulated so
\* far are a prefix of the ids of the input, in the input's order.
C24_OutputIsInputPrefix ==
    IsBatchRun =>
        /\ Len(run.enriched_videos) <= Len(videos)
        /\ \A i \in DOMAIN run.enriched_videos :
               i <= Len(videos) => run.enriched_videos[i].video_id = InputId(i)

\* C25: a run that has stopped of itself is done or aborted, never ended by
\* an exception; it is done only with the whole input processed and the
\* breaker not tripped, and once aborted it takes no further step.
C25_DoneOrAborted ==
    IsBatchRun =>
        /\ pc \in {"running", "done", "aborted", "interrupted"}
        /\ (pc = "done" => idx = Len(videos) /\ ~run.aborted)
        /\ (pc = "aborted" =>
               ~ENABLED EnrichStep /\ ~ENABLED TakeoutStep /\ ~ENABLED Finish)

\* C26: every remote fetch a run attempts, for a video or a channel, adds
\* exactly one to api_calls, whatever its outcome: the counter equals the
\* number of fetches attempted so far.
C26_EveryFetchCounted ==
    IsBatchRun => run.api_calls = Len(calls)

\* The rows of the playlist files that name the video, the blanks around
\* an id not counted, and the entries written for it.
RowsOf(video_id) ==
    {i \in DOMAIN output.rows : Strip(output.rows[i].video_id) = video_id}
EntriesOf(video_id) ==
    {i \in DOMAIN output.videos : output.videos[i].video_id = video_id}
FirstRowOf(video_id) ==
    CHOOSE i \in RowsOf(video_id) : \A j \in RowsOf(video_id) : i <= j

\* C27: in the output of process_takeout_export a video that occurs in
\* several playlist files has one entry; the entry has the added_at of the
\* video's first row and lists in appears_in_playlists every playlist the
\* video occurs in; and the run made at most one fetch for the video.
C27_TakeoutDedupe ==
    (fn = "process_takeout_export" /\ pc = "done") =>
        \A r \in DOMAIN output.rows :
            LET video_id == Strip(output.rows[r].video_id) IN
            Cardinality(RowsOf(video_id)) > 1 =>
                /\ Cardinality(EntriesOf(video_id)) = 1
                /\ \A i \in EntriesOf(video_id) :
                     /\ output.videos[i].added_at =
                            output.rows[FirstRowOf(video_id)].added_at
                     /\ {output.videos[i].appears_in_playlists[k] :
                             k \in DOMAIN output.videos[i].appears_in_playlists}
                          = {output.rows[j].playlist_name : j \in RowsOf(video_id)}
                /\ Cardinality({c \in DOMAIN calls :
                                    IsVideoCall(calls[c], VideoKinds)
                                    /\ calls[c].id = video_id}) <= 1

\* ------------------------------------------------- the SQLite export alone

\* What a count of the remote source's statistics may be.
CountValues ==
    {None, Str("12"), Str("0"), Str(" 7"), Str("abc"), Str(""),
     IntValue(0), IntValue(7), List(<<Str("12")>>)}

\* Entries of enriched_videos as the runs build them, and a channel of
\* channels_by_id.
Entry(video_id, count, added_at) ==
    [video_id |-> video_id, title |-> Str("title"), channel_id |-> Str("c1"),
     statistics |-> Dict([viewCount |-> count]),
     video_data_extracted_at |-> Str(0), added_at |-> Str(added_at)]
ErrorEntry(video_id, added_at) ==
    [video_id |-> video_id, error |-> Str(<<"Video", "not", "found">>),
     added_at |-> Str(added_at)]
TakeoutEntry(video_id, added_at, names) ==
    [video_id |-> video_id, title |-> Str("title"), channel_id |-> Str("c1"),
     statistics |-> Dict([viewCount |-> Str("12")]),
     video_data_extracted_at |-> Str(0), added_at |-> Str(added_at),
     appears_in_playlists |-> names]
Channel(count) ==
    DictSet(Dict([id |-> Str("c1"), title |-> Str("channel"),
                  subscriber_count |-> count]),
            "_extracted_at", Str(0))
\* An item of parse_takeout_playlists_csv_full's dict.
Info(playlist_id, title) ==
    [playlist_id |-> playlist_id,
     pdata |-> Dict([title |-> Str(title), add_new_videos_to_top |-> Str("True")])]

\* The arguments of the export at the end of enrich_playlist ...
Arguments(enriched_videos, channels_by_id, playlist_info, by_video) ==
    [enriched_videos |-> enriched_videos, channels_by_id |-> channels_by_id,
     playlist_info |-> playlist_info, video_to_playlists |-> by_video]
EnrichExports ==
    {Arguments(<<Entry("v1", count, "d1")>>, [id \in {"c1"} |-> Channel(count)],
               <<>>, <<>>) : count \in CountValues}
    \cup {Arguments(<<>>, <<>>, <<>>, <<>>),
          Arguments(<<ErrorEntry("v1", "d1"), Entry("v2", Str("0"), "d2")>>,
                    [id \in {"c1"} |-> Channel(None)], <<>>, <<>>)}
\* ... and at the end of process_takeout_export: playlists A (p1) and B
\* (p2); a video twice in A's file; a file C that playlists.csv does not
\* list; ids with a blank in the files; two playlists of one title; no
\* playlist listed.
TakeoutExports ==
    LET AB == <<Info("p1", "A"), Info("p2", "B")>>
        channels == [id \in {"c1"} |-> Channel(Str("12"))]
    IN
    {Arguments(<<TakeoutEntry("v1", "d1", <<"A">>),
                 TakeoutEntry("v2", "d2", <<"A", "B">>)>>, channels, AB,
               [id \in {"v1", "v2"} |-> IF id = "v1" THEN <<"A">> ELSE <<"A", "B">>]),
     Arguments(<<TakeoutEntry("v1", "d1", <<"A", "A">>)>>, channels, AB,
               [id \in {"v1"} |-> <<"A", "A">>]),
     Arguments(<<TakeoutEntry("v1", "d1", <<"A", "C">>)>>, channels, AB,
               [id \in {"v1"} |-> <<"A", "C">>]),
     Arguments(<<TakeoutEntry("v1", "d1", <<>>)>>, channels, AB,
               [id \in {" v1"} |-> <<"A", "B">>]),
     Arguments(<<TakeoutEntry("v1", "d1", <<"A">>),
                 TakeoutEntry("v1", "d2", <<>>)>>, channels, AB,
               [id \in {"v1", " v1"} |-> IF id = "v1" THEN <<"A">> ELSE <<"B">>]),
     Arguments(<<TakeoutEntry("v3", "d1", <<"A">>)>>, channels,
               <<Info("p1", "A"), Info("p2", "A")>>,
               [id \in {"v3"} |-> <<"A">>]),
     Arguments(<<TakeoutEntry("v1", "d1", <<"A">>)>>, channels, <<>>,
               [id \in {"v1"} |-> <<"A">>])}

InitExport ==
    /\ cache = CacheInit
    /\ now = 0
    /\ env = [base |-> "ok", cbase |-> "ok", blips |-> 0, kinds |-> VideoKinds]
    /\ pc = "idle"
    /\ fn = "none"
    /\ videos = <<>>
    /\ video_to_playlists = <<>>
    /\ idx = 0
    /\ run = RunInit
    /\ output = [written |-> FALSE, file |-> NoFile]
    /\ calls = <<>>
    /\ fetched = {}
    /\ client = ClientInit

\* The call of export_to_sqlite with the arguments args on the path that
\* holds output.file; before and args record the file it found and what it
\* was given.
Export(args) ==
    LET r == export_to_sqlite(output.file, args.enriched_videos, args.channels_by_id,
                              args.playlist_info, args.video_to_playlists)
    IN
    /\ Stopped
    /\ pc' = IF r.flow = "raise" THEN "crashed" ELSE "done"
    /\ fn' = "export_to_sqlite"
    /\ output' = [written |-> r.flow = "return", file |-> r.file,
                  before |-> output.file, args |-> args]
    /\ UNCHANGED <<cache, now, env, videos, video_to_playlists, idx, run, calls,
                   fetched, client>>

\* "if sqlite_path: export_to_sqlite(...)" of enrich_playlist and of
\* process_takeout_export.
EnrichExport == \E args \in EnrichExports : Export(args)
TakeoutExport == \E args \in TakeoutExports : Export(args)

NextExport == EnrichExport \/ TakeoutExport
SpecExport == InitExport /\ [][NextExport]_vars

Exported == fn = "export_to_sqlite" /\ pc = "done"

\* The junction table written, the ids of the supplied playlists that have
\* the title name, and the playlist names of the e-th video given.
Junction == output.file.tables.video_playlists
IdsTitled(name) ==
    {output.args.playlist_info[i].playlist_id : i \in
        {j \in DOMAIN output.args.playlist_info :
            DictGet(output.args.playlist_info[j].pdata, "title", None) = Str(name)}}
Memberships(e) ==
    PlaylistsList(output.args.enriched_videos[e], output.args.video_to_playlists)
Denormalized(video_id) == output.file.tables.videos[video_id].playlists[2]

\* C28: after an export every junction row pairs a video with a playlist
\* whose title is one of the video's playlist names; every playlist name of
\* a video that is the title of a supplied playlist has its junction row;
\* a name that is no such title is still in the video's denormalized list;
\* and no two junction rows have the same (video, playlist) pair.
C28_JunctionResolvable ==
    Exported =>
        /\ \A i \in DOMAIN Junction :
              \E e \in DOMAIN output.args.enriched_videos :
                 /\ output.args.enriched_videos[e].video_id = Junction[i].video_id
                 /\ \E k \in DOMAIN Memberships(e) :
                       Junction[i].playlist_id \in IdsTitled(Memberships(e)[k])
        /\ \A e \in DOMAIN output.args.enriched_videos :
              \A k \in DOMAIN Memberships(e) :
                 LET name == Memberships(e)[k]
                     video_id == output.args.enriched_videos[e].video_id
                 IN
                 IF IdsTitled(name) # {}
                 THEN \E i \in DOMAIN Junction :
                         /\ Junction[i].video_id = video_id
                         /\ Junction[i].playlist_id \in IdsTitled(name)
                 ELSE \E j \in DOMAIN Denormalized(video_id) :
                         Denormalized(video_id)[j] = <<"string", name>>
        /\ \A i, j \in DOMAIN Junction :
              (/\ Junction[i].video_id = Junction[j].video_id
               /\ Junction[i].playlist_id = Junction[j].playlist_id) => i = j
\* An export wrote a junction row for a video one of whose playlist names
\* is the title of no supplied playlist.
C28_Witness ==
    /\ Exported
    /\ \E e \in DOMAIN output.args.enriched_videos :
          /\ \E k \in DOMAIN Memberships(e) : IdsTitled(Memberships(e)[k]) = {}
          /\ \E i \in DOMAIN Junction :
                Junction[i].video_id = output.args.enriched_videos[e].video_id

\* The database one export with the arguments writes on a path that holds
\* no file.
SingleExport(args) ==
    export_to_sqlite(NoFile, args.enriched_videos, args.channels_by_id,
                     args.playlist_info, args.video_to_playlists).file

\* C29: whatever the path held before, an export ends with the database a
\* single export of its arguments writes on an empty path, so that a
\* second export of the same arguments changes nothing; and every row of
\* the database is a row of a video, channel or playlist of the arguments.
C29_ExportReplaces ==
    fn = "export_to_sqlite" =>
        /\ pc = "done"
        /\ output.file = SingleExport(output.args)
        /\ DOMAIN output.file.tables.videos \subseteq
              {output.args.enriched_videos[e].video_id :
                  e \in DOMAIN output.args.enriched_videos}
        /\ DOMAIN output.file.tables.channels \subseteq DOMAIN output.args.channels_by_id
        /\ DOMAIN output.file.tables.playlists \subseteq
              {output.args.playlist_info[i].playlist_id :
                  i \in DOMAIN output.args.playlist_info}
        /\ \A i \in DOMAIN Junction :
              Junction[i].video_id \in DOMAIN output.file.tables.videos
\* An export onto a path that held an export with a video, a playlist and
\* a junction row that the new arguments do not have.
C29_Witness ==
    /\ Exported
    /\ output.before.exists
    /\ DOMAIN output.before.tables.videos \ DOMAIN output.file.tables.videos # {}
    /\ DOMAIN output.before.tables.playlists # {}
    /\ output.before.tables.video_playlists # <<>>
    /\ output.args.playlist_info = <<>>

\* What the claim asks of a count column: the integer value of the input
\* when int() gives one, None (absent) when int() raises.
Coerced(v) == IF PyInt(v)[1] = "ok" THEN IntValue(PyInt(v)[2]) ELSE None
StatisticsOf(video) ==
    IF Truthy(EntryGet(video, "statistics")) THEN video.statistics ELSE Dict(<<>>)

\* C30: after an export the view_count of every video row and the
\* subscriber_count of every channel row is the integer value of the count
\* given, zero included, when the count can be coerced to an integer, and
\* absent otherwise; a count that is not given is absent; the export has not
\* failed.
C30_CountsCoerced ==
    fn = "export_to_sqlite" =>
        /\ pc = "done"
        /\ \A e \in DOMAIN output.args.enriched_videos :
              LET video == output.args.enriched_videos[e]
                  row == output.file.tables.videos[video.video_id]
              IN
              (\A f \in DOMAIN output.args.enriched_videos :
                    output.args.enriched_videos[f].video_id = video.video_id => f <= e)
              => row.view_count =
                    IF "viewCount" \in DOMAIN StatisticsOf(video)[2]
                    THEN Coerced(StatisticsOf(video)[2].viewCount) ELSE None
        /\ \A channel_id \in DOMAIN output.args.channels_by_id :
              LET channel_data == output.args.channels_by_id[channel_id] IN
              output.file.tables.channels[channel_id].subscriber_count =
                  IF "subscriber_count" \in DOMAIN channel_data[2]
                  THEN Coerced(channel_data[2].subscriber_count) ELSE None

\* C31: in enrich_playlist the counter of consecutive failures is between 0
\* and 10, the run is marked aborted exactly when it is 10, and an
\* iteration adds at most one to it, and nothing when it makes no remote
\* call.
CounterInRange ==
    fn = "enrich_playlist" =>
        /\ run.consecutive_api_errors \in 0..Threshold
        /\ run.aborted <=> run.consecutive_api_errors = Threshold
        /\ pc = "aborted" <=> run.aborted
CounterStep ==
    (fn = "enrich_playlist" /\ pc = "running" /\ idx' = idx + 1) =>
        run'.consecutive_api_errors - run.consecutive_api_errors
            <= IF NewCalls = <<>> THEN 0 ELSE 1
C31_CounterBounded == []CounterInRange /\ [][CounterStep]_vars
\* The counter reached 10 on a failed channel fetch, after video fetches
\* that failed.
C31_Witness ==
    /\ fn = "enrich_playlist"
    /\ run.aborted
    /\ run.consecutive_api_errors = Threshold
    /\ LastCall.endpoint = "channels"
    /\ IsVideoCall(calls[1], TransientKinds)

\* C32: in enrich_playlist the video fetch errors counted as not found are
\* those whose message says "not found", in any case and under any status
\* code; each of them sets the counter of consecutive failures to 0, and a
\* run all of whose fetches fail in this way is not aborted and ends done.
C32_NotFoundByMessage ==
    (fn = "enrich_playlist" /\ Len(calls) = idx) =>
        /\ run.videos_not_found =
              Cardinality({i \in DOMAIN calls : IsVideoCall(calls[i], SaysNotFoundKinds)})
        /\ (calls # <<>> /\ IsVideoCall(LastCall, SaysNotFoundKinds)) =>
              run.consecutive_api_errors = 0
        /\ CallsAre(1, idx, SaysNotFoundKinds) =>
              /\ ~run.aborted
              /\ pc \in {"running", "done"}
              /\ idx = Len(videos) => pc = "done" \/ ENABLED Finish
\* A run of MaxLong items is done, every fetch failed, all under the
\* status 503 with "NOT FOUND" but one under 404 with "Not Found".
C32_Witness ==
    /\ fn = "enrich_playlist"
    /\ pc = "done"
    /\ idx = MaxLong
    /\ Len(calls) = MaxLong
    /\ CallsAre(1, MaxLong, {"http_503_notfound", "api_notfound"})
    /\ \E i \in DOMAIN calls : calls[i].kind = "api_notfound"
    /\ \E i \in DOMAIN calls : calls[i].kind = "http_503_notfound"
    /\ run.videos_not_found = MaxLong

\* C33: in the output of a completed run every video entry that carries a
\* channel_id that is not empty has its channel in the channels map.
C33_ChannelsOfVideosPresent ==
    (IsBatchRun /\ pc = "done") =>
        \A i \in DOMAIN output.videos :
            LET entry == output.videos[i] IN
            ("channel_id" \in DOMAIN entry /\ Truthy(entry.channel_id)) =>
                entry.channel_id[2] \in DOMAIN output.channels

\* C34: between the items of a run the remote calls counted are the
\* successes plus the errors, and so they are in the metadata a completed
\* run writes.
C34_CallsAreSuccessesPlusErrors ==
    IsBatchRun =>
        /\ run.api_calls = run.api_success + run.api_errors
        /\ pc = "done" =>
              output.metadata.api_calls =
                  output.metadata.api_success + output.metadata.api_errors

\* C35: a run of enrich_playlist makes at most one remote fetch for a
\* video id, whatever the outcome of the first and however often the input
\* lists the id.
C35_VideoFetchedOnce ==
    fn = "enrich_playlist" =>
        \A i, j \in DOMAIN calls :
            (/\ calls[i].endpoint = "videos"
             /\ calls[j].endpoint = "videos"
             /\ calls[i].id = calls[j].id) => i = j

\* C36: clear deletes the entries of one namespace, and leaves the other,
\* only when its argument is 'videos' or 'channels'; with any other
\* argument, a name that is no namespace's included, both namespaces are
\* empty after it, in the connection and in the file.
ClearArgumentStep ==
    client'.last.op = "clear" =>
        IF client'.last.table \in {"videos", "channels"}
        THEN \E other \in {"videos", "channels"} \ {client'.last.table} :
                /\ cache'.view[client'.last.table] = <<>>
                /\ cache'.view[other] = cache.view[other]
                /\ cache'.disk = cache'.view
        ELSE cache'.view = EmptyTables /\ cache'.disk = EmptyTables
C36_ClearUnknownDeletesAll == [][ClearArgumentStep]_vars
\* clear('video') has deleted a video and a channel.
C36_Witness ==
    /\ client.last.op = "clear"
    /\ client.last.table = "video"
    /\ client.last.before.videos > 0
    /\ client.last.before.channels > 0
    /\ Stats(cache) = [videos |-> 0, channels |-> 0]
    /\ cache.disk = EmptyTables

\* Of the supplied playlists that have the title name, the one that comes
\* last in playlist_info.
LastTitled(name) ==
    LET titled == {j \in DOMAIN output.args.playlist_info :
                      DictGet(output.args.playlist_info[j].pdata, "title", None)
                          = Str(name)}
    IN output.args.playlist_info[CHOOSE j \in titled : \A k \in titled : k <= j].playlist_id

\* C37: after an export, a playlist name of a video that is the title of
\* two supplied playlists has one junction row, with the playlist that
\* comes last among them, and none with the other.
C37_DuplicateTitleLastWins ==
    Exported =>
        \A e \in DOMAIN output.args.enriched_videos :
            \A k \in DOMAIN Memberships(e) :
                LET name == Memberships(e)[k]
                    rows == {i \in DOMAIN Junction :
                                /\ Junction[i].video_id =
                                       output.args.enriched_videos[e].video_id
                                /\ Junction[i].playlist_id \in IdsTitled(name)}
                IN
                Cardinality(IdsTitled(name)) > 1 =>
                    /\ Cardinality(rows) = 1
                    /\ \A i \in rows : Junction[i].playlist_id = LastTitled(name)
\* Playlists p1 and p2 both titled A, and a video of "A": its one junction
\* row is with p2.
C37_Witness ==
    /\ Exported
    /\ IdsTitled("A") = {"p1", "p2"}
    /\ Len(Junction) = 1
    /\ Junction[1].playlist_id = "p2"
    /\ Junction[1].video_id = "v3"

====
